---- MODULE Spec2Model ----
(***************************************************************************)
(* Deployment pipeline of webpilotx/cd: the webhook endpoint, the manual   *)
(* run-script endpoint and the script registry of the Express server.      *)
(*                                                                         *)
(* Two server entry points of the repository are modelled, selected by     *)
(* the variable impl:                                                      *)
(*   "main"   src/unnamed/part_000  (clone-or-pull, then run the script)   *)
(*   "server" src/server.js         (older: run the script, no git step)   *)
(*                                                                         *)
(* The specifications share the variables:                                 *)
(*   Spec          deployment runs (webhook, run-script) and script files  *)
(*   SpecLive      runs of part_000 under fairness of files and processes  *)
(*   SpecStream    webhook runs with the output of both processes          *)
(*   SpecRegistry  the script and config endpoints, request by request     *)
(*   SpecIsolation the script endpoints for several repositories           *)
(*   SpecCred      the OAuth token in memory and in the token file         *)
(*   SpecProxy     the endpoints that call the provider with the token     *)
(*   SpecBoot      the startup of the process from its environment         *)
(*   SpecAll       every endpoint of part_000 side by side                 *)
(*   SpecOrg       src/unnamed/part_001: one token per organisation        *)
(*                                                                         *)
(* Text is a sequence of tokens.  "/" and "_" are single characters; any   *)
(* other token stands for a piece of text without "/" or "_".              *)
(* A JavaScript value is a record [t, v]: t is "undef", "str", "num" or    *)
(* "obj", v is the text of a string (<<>> otherwise).                      *)
(***************************************************************************)
EXTENDS Integers, Sequences, FiniteSets, Bags, TLC

VARIABLES impl, runs, dirs, files, ops, accessToken, tokenFile, auths,
          env, boot, calls, orgTokens, orgOps

\* the requests to the script and config endpoints
regVars == <<ops>>
\* the credential: the token in memory, the token file, the requests that use them
credVars == <<accessToken, tokenFile, auths>>

\* the environment of the process and how far its startup got
bootVars == <<env, boot>>
\* the requests to the provider-proxy endpoints
proxyVars == <<calls>>
orgVars == <<orgTokens, orgOps>>

vars == <<impl, runs, dirs, files, regVars, credVars, bootVars, proxyVars, orgVars>>

\* ---------------------------------------------------------------- bounds
MaxRuns == 2
MaxChunks == 1

\* ------------------------------------------------------- JavaScript values
Undef == [t |-> "undef", v |-> <<>>]
Obj == [t |-> "obj", v |-> <<>>]
Num == [t |-> "num", v |-> <<>>]
Str(s) == [t |-> "str", v |-> s]

\* !x is false exactly for truthy x: non-empty strings, objects, non-zero numbers
Truthy(x) == \/ x.t = "obj"
             \/ x.t = "num"
             \/ x.t = "str" /\ x.v # <<>>

\* `${x}` : template-literal interpolation of a value
Interpolate(x) == CASE x.t = "str" -> x.v
                    [] x.t = "undef" -> <<"undefined">>
                    [] x.t = "num" -> <<"7">>
                    [] OTHER -> <<"[object Object]">>

\* ------------------------------------------------------------ text helpers
\* String.prototype.split("/"): the list of the pieces between the slashes
RECURSIVE Split(_)
Split(s) ==
  IF s = <<>> THEN << <<>> >>
  ELSE LET rest == Split(Tail(s))
       IN IF Head(s) = "/"
          THEN << <<>> >> \o rest
          ELSE << <<Head(s)>> \o Head(rest) >> \o Tail(rest)

\* Array.prototype.pop(): the last element
Shift(list) == list[1]
Pop(list) == list[Len(list)]

\* const branch = ref.split("/").pop()
BranchOfWhole(ref) == ref
BranchOf(ref) == Pop(Split(ref))

SCRIPTS_DIR == <<"/", "scripts">>

\* path.join(SCRIPTS_DIR, name)
PathJoin(dir, name) == dir \o <<"/">> \o name

\* path.join(SCRIPTS_DIR, `${owner}_${repo}.sh`)
ScriptPath(owner, repo) == PathJoin(SCRIPTS_DIR, owner \o <<"_">> \o repo \o <<".sh">>)

\* path.join(SCRIPTS_DIR, `${owner.login}_${repo}`)
WorkingDir(owner, repo) == PathJoin(SCRIPTS_DIR, owner \o <<"_">> \o repo)

\* ------------------------------------------------------------ the file system
\* fs.readFile / fs.access of a path: the file, or ENOENT
ReadFile(path) ==
  IF path \in DOMAIN files
  THEN [exists |-> TRUE, text |-> files[path]]
  ELSE [exists |-> FALSE, text |-> <<>>]

NoFile == [exists |-> FALSE, text |-> <<>>]

\* ------------------------------------------------------------ request inputs
Logins == {Undef, Str(<<>>), Str(<<"acme">>)}
Names == {Undef, Str(<<>>), Str(<<"app">>)}
Refs == {Undef, Str(<<>>), Num,
         Str(<<"refs", "/", "heads", "/", "main">>),
         Str(<<"refs", "/", "heads", "/", "release", "/", "v2">>),
         Str(<<"refs", "/", "tags", "/", "v1">>),
         Str(<<"main">>)}

\* req.body of POST /cd/api/webhook: { repository: { owner: { login }, name }, ref }
\* (a field of an absent object is absent)
NoBody == [repository |-> Undef, owner |-> Undef, login |-> Undef, name |-> Undef,
           ref |-> Undef, branch |-> Undef, workingDir |-> Undef]

\* the push of acme/app to main, and every payload that differs from it in one field
BasePush == [NoBody EXCEPT !.repository = Obj, !.owner = Obj,
                           !.login = Str(<<"acme">>), !.name = Str(<<"app">>),
                           !.ref = Str(<<"refs", "/", "heads", "/", "main">>)]

\* a field the handler does not read: the payload with the bare ref "main"
\* carries a workingDir of its own
StrayDir(ref) == IF ref = Str(<<"main">>) THEN Str(<<"/", "tmp">>) ELSE Undef

PushPayloads ==
  {[BasePush EXCEPT !.ref = r, !.workingDir = StrayDir(r)] : r \in Refs}
  \cup {[BasePush EXCEPT !.login = l] : l \in Logins}
  \cup {[BasePush EXCEPT !.name = n] : n \in Names}
  \cup {[BasePush EXCEPT !.owner = Undef, !.login = Undef],
        [NoBody EXCEPT !.ref = BasePush.ref]}

\* req.params of the per-repository endpoints
ParamOwners == {<<"acme">>}
ParamRepos == {<<"app">>}

\* req.body of POST /cd/api/repos/:owner/:repo/run-script: { branch, workingDir }
BodyBranches == {Undef, Str(<<>>), Str(<<"main">>)}
BodyWorkingDirs == {Undef, Str(<<>>), Str(WorkingDir(<<"acme">>, <<"app">>))}

RunBodies ==
  {[NoBody EXCEPT !.branch = b, !.workingDir = w] :
     b \in BodyBranches, w \in BodyWorkingDirs}

\* req.body.script of POST /cd/api/repos/:owner/:repo/script
BodyScripts == {Undef, Str(<<>>), Str(<<"deploy">>)}

\* ------------------------------------------------------------ process exits
NoExit == 0 - 2      \* the process has not exited (or was never started)
Killed == 0 - 1      \* exit code null: the process was ended by a signal
GitCodes == {0, 1, Killed}

\* exit codes of `bash <scriptPath>` for the file bash found at that path
ScriptCodes(seen) ==
  IF ~seen.exists THEN {127}
  ELSE IF seen.text = <<>> THEN {0}
  ELSE {0, 1, Killed}

\* ------------------------------------------------------------ runs
\* One record per request to the webhook or run-script endpoint.  out is what
\* was written to the response, piped what the running process has written to
\* its stdout/stderr and no data event has delivered yet.
NewRun(kind, req) ==
  [kind |-> kind, req |-> req, st |-> "PENDING",
   owner |-> <<>>, repo |-> <<>>, branch |-> <<>>, wd |-> <<>>, scriptPath |-> <<>>,
   status |-> 0, ended |-> FALSE, out |-> <<>>, piped |-> <<>>,
   mkdirCalled |-> FALSE,
   gitStarted |-> FALSE, gitExit |-> NoExit,
   scriptStarted |-> FALSE, scriptExit |-> NoExit, scriptSeen |-> NoFile]

\* res.status(code).json(...) / res.status(code).send(...)
Respond(run, st, code) ==
  [run EXCEPT !.st = st, !.status = code, !.ended = TRUE]

WritePrepended(run, chunk) ==
  [run EXCEPT !.status = IF run.status = 0 THEN 200 ELSE run.status,
              !.out = <<chunk>> \o run.out]

\* res.write(chunk): the first write sends the headers with the default status 200
Write(run, chunk) ==
  [run EXCEPT !.status = IF run.status = 0 THEN 200 ELSE run.status,
              !.out = Append(run.out, chunk)]

EndNotFinal(run, st) == [run EXCEPT !.st = st]

\* res.end(text): ends the response with the default status 200
End(run, st) ==
  [run EXCEPT !.st = st, !.status = IF run.status = 0 THEN 200 ELSE run.status,
              !.ended = TRUE]

\* runs is the bag of the requests received so far
Runs == BagToSet(runs)
Add(run) == runs (+) SetToBag({run})
Replace(old, new) == (runs (-) SetToBag({old})) (+) SetToBag({new})

\* process.env: the variables the server reads
EnvNames == {"GITHUB_CLIENT_ID", "GITHUB_CLIENT_SECRET", "GITHUB_TOKEN_PATH", "HOST",
             "SCRIPTS_DIR"}

\* the value a variable has when the deployment sets it
EnvValue(name) == IF name = "SCRIPTS_DIR" THEN Str(SCRIPTS_DIR) ELSE Str(<<name>>)

\* every variable set
FullEnv == [name \in EnvNames |-> EnvValue(name)]

\* the startup phase; scriptsDir is the constant SCRIPTS_DIR of the module,
\* redirect the last URL GET /cd/api/auth/github redirected to
Booting == [phase |-> "LOADING", scriptsDir |-> <<>>, redirect |-> <<>>]
Listening == [phase |-> "LISTENING", scriptsDir |-> SCRIPTS_DIR, redirect |-> <<>>]

\* let accessToken = null; no request yet; nothing stored under SCRIPTS_DIR or TOKEN_PATH
\* the organisations a request can name (part_001)
OrgKeys == {<<"A">>, <<"B">>}

\* const orgTokens = {}: no organisation has a token, no request was received
NoOrgs ==
  /\ orgTokens = [k \in OrgKeys |-> Undef]
  /\ orgOps = EmptyBag

Fresh ==
  /\ NoOrgs
  /\ env = FullEnv
  /\ boot = Listening
  /\ calls = EmptyBag
  /\ runs = EmptyBag
  /\ dirs = {}
  /\ files = [p \in {} |-> <<>>]
  /\ ops = EmptyBag
  /\ accessToken = Undef
  /\ tokenFile = NoFile
  /\ auths = EmptyBag

Init ==
  /\ impl \in {"main", "server"}
  /\ Fresh

\* ------------------------------------------------------------ POST /cd/api/webhook (part_000)
WebhookValidNoName(p) ==
  /\ Truthy(p.repository)
  /\ Truthy(p.owner)
  /\ Truthy(p.ref)

\* if (!repository || !repository.owner || !repository.name || !ref) return 400
WebhookValid(p) ==
  /\ Truthy(p.repository)
  /\ Truthy(p.owner)
  /\ Truthy(p.name)
  /\ Truthy(p.ref)

WebhookStartUsesConfig(p) ==
  LET run == NewRun("webhook", p)
      configPath == PathJoin(SCRIPTS_DIR, Interpolate(p.login) \o <<"_">>
                               \o Interpolate(p.name) \o <<"_", "config.json">>)
  IN
  IF ~WebhookValid(p) THEN Respond(run, "REJECTED", 400)
  ELSE IF p.ref.t # "str" THEN [run EXCEPT !.st = "THREW"]
  ELSE [run EXCEPT !.owner = Interpolate(p.login),
                   !.repo = Interpolate(p.name),
                   !.branch = IF configPath \in DOMAIN files THEN <<"configured">>
                              ELSE BranchOf(p.ref.v),
                   !.wd = IF configPath \in DOMAIN files THEN <<"configured">>
                          ELSE WorkingDir(Interpolate(p.login), Interpolate(p.name)),
                   !.scriptPath = ScriptPath(Interpolate(p.login), Interpolate(p.name)),
                   !.mkdirCalled = TRUE]

WebhookStartNeedsToken(p) ==
  LET run == NewRun("webhook", p) IN
  IF ~WebhookValid(p) THEN Respond(run, "REJECTED", 400)
  ELSE IF ~Truthy(accessToken) THEN Respond(run, "REJECTED", 401)
  ELSE IF p.ref.t # "str" THEN [run EXCEPT !.st = "THREW"]
  ELSE [run EXCEPT !.owner = Interpolate(p.login),
                   !.repo = Interpolate(p.name),
                   !.branch = BranchOf(p.ref.v),
                   !.wd = WorkingDir(Interpolate(p.login), Interpolate(p.name)),
                   !.scriptPath = ScriptPath(Interpolate(p.login), Interpolate(p.name)),
                   !.mkdirCalled = TRUE]

WebhookStartTrustsBody(p) ==
  LET run == NewRun("webhook", p) IN
  IF ~WebhookValid(p) THEN Respond(run, "REJECTED", 400)
  ELSE IF p.ref.t # "str" THEN [run EXCEPT !.st = "THREW"]
  ELSE [run EXCEPT !.owner = Interpolate(p.login),
                   !.repo = Interpolate(p.name),
                   !.branch = BranchOf(p.ref.v),
                   !.wd = IF Truthy(p.workingDir) THEN Interpolate(p.workingDir)
                          ELSE WorkingDir(Interpolate(p.login), Interpolate(p.name)),
                   !.scriptPath = ScriptPath(Interpolate(p.login), Interpolate(p.name)),
                   !.mkdirCalled = TRUE]

\* the handler up to its first await: validation, branch and paths, fs.mkdir called.
\* ref.split is outside the try block: for a truthy ref that is not a string it
\* throws a TypeError, the async handler rejects and no response is written ("THREW").
WebhookStart(p) ==
  LET run == NewRun("webhook", p) IN
  IF ~WebhookValid(p) THEN Respond(run, "REJECTED", 400)
  ELSE IF p.ref.t # "str" THEN [run EXCEPT !.st = "THREW"]
  ELSE [run EXCEPT !.owner = Interpolate(p.login),
                   !.repo = Interpolate(p.name),
                   !.branch = BranchOf(p.ref.v),
                   !.wd = WorkingDir(Interpolate(p.login), Interpolate(p.name)),
                   !.scriptPath = ScriptPath(Interpolate(p.login), Interpolate(p.name)),
                   !.mkdirCalled = TRUE]

Webhook(p) ==
  /\ impl = "main"
  /\ BagCardinality(runs) < MaxRuns
  /\ runs' = Add(WebhookStart(p))
  /\ UNCHANGED <<orgVars, bootVars, proxyVars, impl, dirs, files, regVars, credVars>>

\* The promise of the handler rejected with the TypeError.  Express 5 passes a
\* rejected handler to its error handler, which answers 500; Express 4 drops
\* the promise and the request is never answered.  The repository does not
\* fix the version: this step may happen or never happen.
WebhookRejected(run) ==
  /\ impl = "main"
  /\ run.kind = "webhook" /\ run.st = "THREW" /\ ~run.ended
  /\ runs' = Replace(run, Respond(run, "THREW", 500))
  /\ UNCHANGED <<orgVars, bootVars, proxyVars, impl, dirs, files, regVars, credVars>>

\* await fs.mkdir(workingDir, { recursive: true }) returns, then exec(gitCommand)
WebhookMkdirOk(run) ==
  /\ run.kind = "webhook" /\ run.st = "PENDING" /\ run.mkdirCalled
  /\ dirs' = dirs \cup {run.wd}
  /\ runs' = Replace(run, [run EXCEPT !.st = "SYNCING", !.gitStarted = TRUE])
  /\ UNCHANGED <<orgVars, bootVars, proxyVars, impl, files, regVars, credVars>>

\* fs.mkdir rejects: the catch block answers 500
WebhookMkdirFail(run) ==
  /\ run.kind = "webhook" /\ run.st = "PENDING" /\ run.mkdirCalled
  /\ runs' = Replace(run, Respond(run, "MKDIR_FAILED", 500))
  /\ UNCHANGED <<orgVars, bootVars, proxyVars, impl, dirs, files, regVars, credVars>>

\* exec(`bash ${scriptPath}`, { cwd: workingDir })
StartScript(run) ==
  [run EXCEPT !.st = "RUNNING", !.scriptStarted = TRUE,
              !.scriptSeen = ReadFile(run.scriptPath)]

WebhookGitCloseRunNoCheck(run, code) ==
  StartScript([run EXCEPT !.gitExit = code])

WebhookGitCloseRun500(run, code) ==
  IF code # 0
  THEN Respond([run EXCEPT !.gitExit = code], "SYNC_FAILED", 500)
  ELSE StartScript([run EXCEPT !.gitExit = code])

StreamsDrainedOnExit(run) == TRUE

\* "close" is emitted after the process ended and its stdio streams were
\* closed: every chunk has been delivered by then
StreamsDrained(run) == run.piped = <<>>

\* gitProcess.on("close", (code) => ...)
WebhookGitCloseRun(run, code) ==
  IF code # 0
  THEN End([run EXCEPT !.gitExit = code], "SYNC_FAILED")
  ELSE StartScript([run EXCEPT !.gitExit = code])

WebhookGitClose(run, code) ==
  /\ run.kind = "webhook" /\ run.st = "SYNCING"
  /\ StreamsDrained(run)
  /\ runs' = Replace(run, WebhookGitCloseRun(run, code))
  /\ UNCHANGED <<orgVars, bootVars, proxyVars, impl, dirs, files, regVars, credVars>>

\* does `bash <scriptPath>` print anything for the file it found: an error
\* message for a missing file, nothing for an empty one
ScriptPrints(seen) == ~seen.exists \/ seen.text # <<>>

\* scriptProcess.stdout/stderr.on("data", (data) => res.write(...)), taken
\* together with the write of the script that caused the event
WebhookScriptData(run) ==
  /\ impl = "main"
  /\ run.kind = "webhook" /\ run.st = "RUNNING"
  /\ ScriptPrints(run.scriptSeen)
  /\ Len(run.out) < MaxChunks
  /\ runs' = Replace(run, Write(run, "script"))
  /\ UNCHANGED <<orgVars, bootVars, proxyVars, impl, dirs, files, regVars, credVars>>

WebhookScriptCloseRunIgnoresFailure(run, code) ==
  IF code # 0
  THEN [run EXCEPT !.scriptExit = code]
  ELSE End([run EXCEPT !.scriptExit = code], "SUCCEEDED")

WebhookScriptCloseRunSwapped(run, code) ==
  IF code = 0
  THEN End([run EXCEPT !.scriptExit = code], "SCRIPT_FAILED")
  ELSE End([run EXCEPT !.scriptExit = code], "SUCCEEDED")

\* scriptProcess.on("close", (code) => ...)
WebhookScriptCloseRun(run, code) ==
  IF code # 0
  THEN End([run EXCEPT !.scriptExit = code], "SCRIPT_FAILED")
  ELSE End([run EXCEPT !.scriptExit = code], "SUCCEEDED")

WebhookScriptClose(run, code) ==
  /\ impl = "main"
  /\ run.kind = "webhook" /\ run.st = "RUNNING"
  /\ StreamsDrained(run)
  /\ code \in ScriptCodes(run.scriptSeen)
  /\ runs' = Replace(run, WebhookScriptCloseRun(run, code))
  /\ UNCHANGED <<orgVars, bootVars, proxyVars, impl, dirs, files, regVars, credVars>>

\* ------------------------------------------------------------ POST /cd/api/repos/:owner/:repo/run-script
RunScriptStartNoDirCheck(owner, repo, b) ==
  LET run == [NewRun("manual", b) EXCEPT !.owner = owner, !.repo = repo] IN
  IF ~Truthy(b.branch)
  THEN Respond(run, "REJECTED", 400)
  ELSE [run EXCEPT !.branch = Interpolate(b.branch),
                   !.wd = Interpolate(b.workingDir),
                   !.scriptPath = ScriptPath(owner, repo),
                   !.mkdirCalled = TRUE]

\* the handler up to its first await: validation, paths, fs.mkdir called
RunScriptStart(owner, repo, b) ==
  LET run == [NewRun("manual", b) EXCEPT !.owner = owner, !.repo = repo] IN
  IF ~Truthy(b.branch) \/ ~Truthy(b.workingDir)
  THEN Respond(run, "REJECTED", 400)
  ELSE [run EXCEPT !.branch = Interpolate(b.branch),
                   !.wd = Interpolate(b.workingDir),
                   !.scriptPath = ScriptPath(owner, repo),
                   !.mkdirCalled = TRUE]

RunScript(owner, repo, b) ==
  /\ impl = "main"
  /\ BagCardinality(runs) < MaxRuns
  /\ runs' = Add(RunScriptStart(owner, repo, b))
  /\ UNCHANGED <<orgVars, bootVars, proxyVars, impl, dirs, files, regVars, credVars>>

\* await fs.mkdir(workingDir, { recursive: true }) returns, then exec(gitCommand, callback)
RunScriptMkdirOk(run) ==
  /\ run.kind = "manual" /\ run.st = "PENDING" /\ run.mkdirCalled
  /\ dirs' = dirs \cup {run.wd}
  /\ runs' = Replace(run, [run EXCEPT !.st = "SYNCING", !.gitStarted = TRUE])
  /\ UNCHANGED <<orgVars, bootVars, proxyVars, impl, files, regVars, credVars>>

\* fs.mkdir rejects: the catch block answers 500
RunScriptMkdirFail(run) ==
  /\ run.kind = "manual" /\ run.st = "PENDING" /\ run.mkdirCalled
  /\ runs' = Replace(run, Respond(run, "MKDIR_FAILED", 500))
  /\ UNCHANGED <<orgVars, bootVars, proxyVars, impl, dirs, files, regVars, credVars>>

\* exec's callback gets an error exactly when the process did not exit with code 0
ExecError(code) == code # 0

\* exec(gitCommand, async (error, stdout, stderr) => ...)
RunScriptGitCallbackRun(run, code) ==
  IF ExecError(code)
  THEN Respond([run EXCEPT !.gitExit = code], "SYNC_FAILED", 500)
  ELSE StartScript([run EXCEPT !.gitExit = code])

RunScriptGitCallback(run, code) ==
  /\ run.kind = "manual" /\ run.st = "SYNCING"
  /\ runs' = Replace(run, RunScriptGitCallbackRun(run, code))
  /\ UNCHANGED <<orgVars, bootVars, proxyVars, impl, dirs, files, regVars, credVars>>

RunScriptCallbackRunAlways200(run, code) ==
  Respond([run EXCEPT !.scriptExit = code], "SUCCEEDED", 200)

\* exec(`bash ${scriptPath}`, { cwd: workingDir }, (error, stdout, stderr) => ...)
RunScriptCallbackRun(run, code) ==
  IF ExecError(code)
  THEN Respond([run EXCEPT !.scriptExit = code], "SCRIPT_FAILED", 500)
  ELSE Respond([run EXCEPT !.scriptExit = code], "SUCCEEDED", 200)

RunScriptCallback(run, code) ==
  /\ run.kind = "manual" /\ run.st = "RUNNING"
  /\ code \in ScriptCodes(run.scriptSeen)
  /\ runs' = Replace(run, RunScriptCallbackRun(run, code))
  /\ UNCHANGED <<orgVars, bootVars, proxyVars, impl, dirs, files, regVars, credVars>>

\* ------------------------------------------------------------ POST /cd/api/webhook (server.js)
\* if (!repository || !repository.owner || !repository.name) return 400
ServerWebhookValid(p) ==
  /\ Truthy(p.repository)
  /\ Truthy(p.owner)
  /\ Truthy(p.name)

\* the handler up to its first await: validation, script path, fs.access called
ServerWebhookStart(p) ==
  LET run == NewRun("webhook", p) IN
  IF ~ServerWebhookValid(p) THEN Respond(run, "REJECTED", 400)
  ELSE [run EXCEPT !.st = "CHECKING",
                   !.owner = Interpolate(p.login),
                   !.repo = Interpolate(p.name),
                   !.scriptPath = ScriptPath(Interpolate(p.login), Interpolate(p.name))]

ServerWebhook(p) ==
  /\ impl = "server"
  /\ BagCardinality(runs) < MaxRuns
  /\ runs' = Add(ServerWebhookStart(p))
  /\ UNCHANGED <<orgVars, bootVars, proxyVars, impl, dirs, files, regVars, credVars>>

\* await fs.access(scriptPath) returns: exec(`bash ${scriptPath}`, callback), or 404 on ENOENT
ServerWebhookAccessRun(run) ==
  IF ReadFile(run.scriptPath).exists
  THEN StartScript(run)
  ELSE Respond(run, "NOT_FOUND", 404)

ServerWebhookAccess(run) ==
  /\ run.kind = "webhook" /\ run.st = "CHECKING"
  /\ runs' = Replace(run, ServerWebhookAccessRun(run))
  /\ UNCHANGED <<orgVars, bootVars, proxyVars, impl, dirs, files, regVars, credVars>>

\* fs.access rejects with an error other than ENOENT: 500
ServerWebhookAccessFail(run) ==
  /\ run.kind = "webhook" /\ run.st = "CHECKING"
  /\ runs' = Replace(run, Respond(run, "ACCESS_FAILED", 500))
  /\ UNCHANGED <<orgVars, bootVars, proxyVars, impl, dirs, files, regVars, credVars>>

\* exec(`bash ${scriptPath}`, (error, stdout, stderr) => ...)
ServerWebhookCallbackRun(run, code) ==
  IF ExecError(code)
  THEN Respond([run EXCEPT !.scriptExit = code], "SCRIPT_FAILED", 500)
  ELSE Respond([run EXCEPT !.scriptExit = code], "SUCCEEDED", 200)

ServerWebhookCallback(run, code) ==
  /\ impl = "server"
  /\ run.kind = "webhook" /\ run.st = "RUNNING"
  /\ code \in ScriptCodes(run.scriptSeen)
  /\ runs' = Replace(run, ServerWebhookCallbackRun(run, code))
  /\ UNCHANGED <<orgVars, bootVars, proxyVars, impl, dirs, files, regVars, credVars>>

\* ------------------------------------------------------------ POST /cd/api/repos/:owner/:repo/script
\* script || ""
SavedText(script) == IF Truthy(script) THEN script.v ELSE <<>>

WriteFileAppend(path, text) ==
  [q \in DOMAIN files \cup {path} |->
     IF q = path THEN ReadFile(path).text \o text ELSE files[q]]

\* fs.writeFile(path, text): the file holds text, whatever it held before
WriteFile(path, text) ==
  [q \in DOMAIN files \cup {path} |-> IF q = path THEN text ELSE files[q]]

\* part_000: fs.writeFile(scriptPath, script || "", { mode: 0o755 }); the whole
\* handler in one step, its response is not observed by a run
SaveScript(owner, repo, script) ==
  /\ impl = "main"
  /\ files' = WriteFile(ScriptPath(owner, repo), SavedText(script))
  /\ UNCHANGED <<orgVars, bootVars, proxyVars, impl, runs, dirs, regVars, credVars>>

\* server.js: an empty or missing script is refused with 400, nothing is written
ServerSaveScript(owner, repo, script) ==
  /\ impl = "server"
  /\ Truthy(script)
  /\ files' = WriteFile(ScriptPath(owner, repo), script.v)
  /\ UNCHANGED <<orgVars, bootVars, proxyVars, impl, runs, dirs, regVars, credVars>>

\* ------------------------------------------------------------ the server
Next ==
  \/ \E p \in PushPayloads : Webhook(p)
  \/ \E run \in Runs : WebhookRejected(run)
  \/ \E run \in Runs : WebhookMkdirOk(run)
  \/ \E run \in Runs : WebhookMkdirFail(run)
  \/ \E run \in Runs, code \in GitCodes : WebhookGitClose(run, code)
  \/ \E run \in Runs : WebhookScriptData(run)
  \/ \E run \in Runs, code \in {0, 1, 127, Killed} : WebhookScriptClose(run, code)
  \/ \E o \in ParamOwners, r \in ParamRepos, b \in RunBodies : RunScript(o, r, b)
  \/ \E run \in Runs : RunScriptMkdirOk(run)
  \/ \E run \in Runs : RunScriptMkdirFail(run)
  \/ \E run \in Runs, code \in GitCodes : RunScriptGitCallback(run, code)
  \/ \E run \in Runs, code \in {0, 1, 127, Killed} : RunScriptCallback(run, code)
  \/ \E p \in PushPayloads : ServerWebhook(p)
  \/ \E run \in Runs : ServerWebhookAccess(run)
  \/ \E run \in Runs : ServerWebhookAccessFail(run)
  \/ \E run \in Runs, code \in {0, 1, 127, Killed} : ServerWebhookCallback(run, code)
  \/ \E o \in ParamOwners, r \in ParamRepos, s \in BodyScripts : SaveScript(o, r, s)
  \/ \E o \in ParamOwners, r \in ParamRepos, s \in BodyScripts : ServerSaveScript(o, r, s)

Spec == Init /\ [][Next]_vars

\* ------------------------------------------------------------ webhook output, chunk by chunk
\* one payload that passes validation, one whose ref is not a string, one refused
LivePayloads == {BasePush, [BasePush EXCEPT !.ref = Num], [BasePush EXCEPT !.name = Undef]}

\* the process of the run that is running now: git, then the script
Writer(run) == IF run.st = "SYNCING" THEN "git" ELSE "script"

\* the number of chunks process w of the run has written so far
Written(run, w) ==
  Cardinality({i \in 1..Len(run.out) : run.out[i] = w})
    + Cardinality({i \in 1..Len(run.piped) : run.piped[i] = w})

\* the git or script process of the run writes a chunk to its stdout or stderr
ProcessWrites(run) ==
  /\ impl = "main"
  /\ run.kind = "webhook" /\ run.st \in {"SYNCING", "RUNNING"}
  /\ run.st = "RUNNING" => ScriptPrints(run.scriptSeen)
  /\ Written(run, Writer(run)) < MaxChunks
  /\ runs' = Replace(run, [run EXCEPT !.piped = Append(run.piped, Writer(run))])
  /\ UNCHANGED <<orgVars, bootVars, proxyVars, impl, dirs, files, regVars, credVars>>

\* gitProcess / scriptProcess .stdout/.stderr.on("data", (data) => res.write(...))
WebhookData(run) ==
  /\ impl = "main"
  /\ run.kind = "webhook" /\ run.st \in {"SYNCING", "RUNNING"}
  /\ run.piped # <<>>
  /\ runs' = Replace(run, [Write(run, Head(run.piped)) EXCEPT !.piped = Tail(run.piped)])
  /\ UNCHANGED <<orgVars, bootVars, proxyVars, impl, dirs, files, regVars, credVars>>

InitStream == impl = "main" /\ Fresh

NextStream ==
  \/ \E p \in LivePayloads : Webhook(p)
  \/ \E run \in Runs : WebhookRejected(run)
  \/ \E run \in Runs : WebhookMkdirOk(run)
  \/ \E run \in Runs : WebhookMkdirFail(run)
  \/ \E run \in Runs : ProcessWrites(run)
  \/ \E run \in Runs : WebhookData(run)
  \/ \E run \in Runs, code \in GitCodes : WebhookGitClose(run, code)
  \/ \E run \in Runs, code \in {0, 1, 127, Killed} : WebhookScriptClose(run, code)
  \/ \E o \in ParamOwners, r \in ParamRepos : SaveScript(o, r, Str(<<"deploy">>))

SpecStream == InitStream /\ [][NextStream]_vars

\* ------------------------------------------------------------ part_000 under fairness
\* one request body that passes validation, one refused
LiveBodies ==
  {NoBody,
   [NoBody EXCEPT !.branch = Str(<<"main">>),
                  !.workingDir = Str(WorkingDir(<<"acme">>, <<"app">>))]}

InitLive == impl = "main" /\ Fresh

NextLive ==
  \/ \E p \in LivePayloads : Webhook(p)
  \/ \E run \in Runs : WebhookRejected(run)
  \/ \E run \in Runs : WebhookMkdirOk(run)
  \/ \E run \in Runs : WebhookMkdirFail(run)
  \/ \E run \in Runs, code \in GitCodes : WebhookGitClose(run, code)
  \/ \E run \in Runs : WebhookScriptData(run)
  \/ \E run \in Runs, code \in {0, 1, 127, Killed} : WebhookScriptClose(run, code)
  \/ \E o \in ParamOwners, r \in ParamRepos, b \in LiveBodies : RunScript(o, r, b)
  \/ \E run \in Runs : RunScriptMkdirOk(run)
  \/ \E run \in Runs : RunScriptMkdirFail(run)
  \/ \E run \in Runs, code \in GitCodes : RunScriptGitCallback(run, code)
  \/ \E run \in Runs, code \in {0, 1, 127, Killed} : RunScriptCallback(run, code)
  \/ \E o \in ParamOwners, r \in ParamRepos : SaveScript(o, r, Str(<<"deploy">>))

\* What the runtime brings about sooner or later: a pending mkdir settles, a
\* started process exits and its close event or callback runs.
Progress ==
  \/ \E run \in Runs : WebhookMkdirOk(run)
  \/ \E run \in Runs : WebhookMkdirFail(run)
  \/ \E run \in Runs, code \in GitCodes : WebhookGitClose(run, code)
  \/ \E run \in Runs, code \in {0, 1, 127, Killed} : WebhookScriptClose(run, code)
  \/ \E run \in Runs : RunScriptMkdirOk(run)
  \/ \E run \in Runs : RunScriptMkdirFail(run)
  \/ \E run \in Runs, code \in GitCodes : RunScriptGitCallback(run, code)
  \/ \E run \in Runs, code \in {0, 1, 127, Killed} : RunScriptCallback(run, code)

SpecLive == InitLive /\ [][NextLive]_vars /\ WF_vars(Progress)

\* ============================================================ script and config endpoints
MaxOps == 3

\* req.body of POST .../script and POST .../config: { script, branch, workingDir }
NoOpBody == [script |-> Undef, branch |-> Undef, workingDir |-> Undef]

ConfigScripts == {Undef, Str(<<"deploy">>)}

ConfigBodies ==
  {[script |-> sc, branch |-> b, workingDir |-> w] :
     sc \in ConfigScripts, b \in BodyBranches, w \in BodyWorkingDirs}

\* One record per request to the script or config endpoints.  seq orders the
\* completions of the file operations (0: not completed); err is the error of
\* the file operation.
NewOp(kind, owner, repo, body) ==
  [op |-> kind, owner |-> owner, repo |-> repo, body |-> body,
   st |-> "PENDING", status |-> 0, script |-> <<>>, err |-> "none", seq |-> 0]

Ops == BagToSet(ops)
AddOp(op) == ops (+) SetToBag({op})
ReplaceOp(old, new) == (ops (-) SetToBag({old})) (+) SetToBag({new})

\* the position of the next file-operation completion
NextSeq ==
  LET used == {op.seq : op \in Ops}
  IN 1 + (CHOOSE m \in used \cup {0} : \A k \in used \cup {0} : k <= m)

\* res.status(code).json(...)
Answer(op, code) == [op EXCEPT !.st = "DONE", !.status = code]

ConfigPathAsScript(owner, repo) == ScriptPath(owner, repo)

\* path.join(SCRIPTS_DIR, `${owner}_${repo}_config.json`)
ConfigPath(owner, repo) ==
  PathJoin(SCRIPTS_DIR, owner \o <<"_">> \o repo \o <<"_", "config.json">>)

\* one member of the object literal in JSON.stringify: an undefined member is left out
Member(key, value) ==
  IF value.t = "undef" THEN <<>> ELSE <<key, ":", "\"">> \o value.v \o <<"\"", ",">>

\* JSON.stringify({ script, branch, workingDir }, null, 2)
Stringify(config) ==
  <<"{">> \o Member("script", config.script) \o Member("branch", config.branch)
          \o Member("workingDir", config.workingDir) \o <<"}">>

\* ---- POST /cd/api/repos/:owner/:repo/script, request by request
\* part_000: the handler up to await fs.writeFile(scriptPath, script || "")
PostScript(owner, repo, script) ==
  /\ impl = "main"
  /\ BagCardinality(ops) < MaxOps
  /\ ops' = AddOp(NewOp("save", owner, repo, [NoOpBody EXCEPT !.script = script]))
  /\ UNCHANGED <<orgVars, bootVars, proxyVars, impl, runs, dirs, files, credVars>>

\* server.js: if (!script) return 400, else up to await fs.writeFile(scriptPath, script)
ServerPostScriptStart(owner, repo, script) ==
  LET op == NewOp("save", owner, repo, [NoOpBody EXCEPT !.script = script])
  IN IF ~Truthy(script) THEN Answer(op, 400) ELSE op

ServerPostScript(owner, repo, script) ==
  /\ impl = "server"
  /\ BagCardinality(ops) < MaxOps
  /\ ops' = AddOp(ServerPostScriptStart(owner, repo, script))
  /\ UNCHANGED <<orgVars, bootVars, proxyVars, impl, runs, dirs, files, credVars>>

\* fs.writeFile resolves: 200 "Script updated successfully."
PostScriptWritten(op) ==
  /\ op.op = "save" /\ op.st = "PENDING"
  /\ files' = WriteFile(ScriptPath(op.owner, op.repo), SavedText(op.body.script))
  /\ ops' = ReplaceOp(op, Answer([op EXCEPT !.seq = NextSeq], 200))
  /\ UNCHANGED <<orgVars, bootVars, proxyVars, impl, runs, dirs, credVars>>

\* fs.writeFile rejects (the file could not be opened): 500, nothing written
PostScriptFailed(op) ==
  /\ op.op = "save" /\ op.st = "PENDING"
  /\ ops' = ReplaceOp(op, Answer([op EXCEPT !.seq = NextSeq, !.err = "EIO"], 500))
  /\ UNCHANGED <<orgVars, bootVars, proxyVars, impl, runs, dirs, files, credVars>>

\* ---- GET /cd/api/repos/:owner/:repo/script
\* the handler up to await fs.readFile(scriptPath, "utf-8")
GetScript(owner, repo) ==
  /\ BagCardinality(ops) < MaxOps
  /\ ops' = AddOp(NewOp("get", owner, repo, NoOpBody))
  /\ UNCHANGED <<orgVars, bootVars, proxyVars, impl, runs, dirs, files, credVars>>

\* part_000: fs.readFile resolves: 200 { script }; ENOENT: 200 { script: "" }
GetScriptReadOp(op) ==
  LET file == ReadFile(ScriptPath(op.owner, op.repo))
  IN IF file.exists
     THEN Answer([op EXCEPT !.seq = NextSeq, !.script = file.text], 200)
     ELSE Answer([op EXCEPT !.seq = NextSeq, !.err = "ENOENT"], 200)

GetScriptRead(op) ==
  /\ impl = "main"
  /\ op.op = "get" /\ op.st = "PENDING"
  /\ ops' = ReplaceOp(op, GetScriptReadOp(op))
  /\ UNCHANGED <<orgVars, bootVars, proxyVars, impl, runs, dirs, files, credVars>>

\* server.js: fs.readFile resolves: 200 { script }; ENOENT: 404 "Script not found."
ServerGetScriptReadOp(op) ==
  LET file == ReadFile(ScriptPath(op.owner, op.repo))
  IN IF file.exists
     THEN Answer([op EXCEPT !.seq = NextSeq, !.script = file.text], 200)
     ELSE Answer([op EXCEPT !.seq = NextSeq, !.err = "ENOENT"], 404)

ServerGetScriptRead(op) ==
  /\ impl = "server"
  /\ op.op = "get" /\ op.st = "PENDING"
  /\ ops' = ReplaceOp(op, ServerGetScriptReadOp(op))
  /\ UNCHANGED <<orgVars, bootVars, proxyVars, impl, runs, dirs, files, credVars>>

\* fs.readFile rejects with an error other than ENOENT: 500 "Failed to read script."
GetScriptFailed(op) ==
  /\ op.op = "get" /\ op.st = "PENDING"
  /\ ops' = ReplaceOp(op, Answer([op EXCEPT !.seq = NextSeq, !.err = "EIO"], 500))
  /\ UNCHANGED <<orgVars, bootVars, proxyVars, impl, runs, dirs, files, credVars>>

\* ---- POST /cd/api/repos/:owner/:repo/config (part_000 only)
SaveConfigStartNoCheck(owner, repo, body) ==
  NewOp("config", owner, repo, body)

\* if (!branch || !workingDir) return 400, else up to await fs.writeFile(configPath, ...)
SaveConfigStart(owner, repo, body) ==
  LET op == NewOp("config", owner, repo, body)
  IN IF ~Truthy(body.branch) \/ ~Truthy(body.workingDir) THEN Answer(op, 400) ELSE op

SaveConfig(owner, repo, body) ==
  /\ impl = "main"
  /\ BagCardinality(ops) < MaxOps
  /\ ops' = AddOp(SaveConfigStart(owner, repo, body))
  /\ UNCHANGED <<orgVars, bootVars, proxyVars, impl, runs, dirs, files, credVars>>

\* fs.writeFile resolves: 200 "Configuration saved successfully."
SaveConfigWritten(op) ==
  /\ op.op = "config" /\ op.st = "PENDING"
  /\ files' = WriteFile(ConfigPath(op.owner, op.repo), Stringify(op.body))
  /\ ops' = ReplaceOp(op, Answer([op EXCEPT !.seq = NextSeq], 200))
  /\ UNCHANGED <<orgVars, bootVars, proxyVars, impl, runs, dirs, credVars>>

\* fs.writeFile rejects: 500 "Failed to save configuration.", nothing written
SaveConfigFailed(op) ==
  /\ op.op = "config" /\ op.st = "PENDING"
  /\ ops' = ReplaceOp(op, Answer([op EXCEPT !.seq = NextSeq, !.err = "EIO"], 500))
  /\ UNCHANGED <<orgVars, bootVars, proxyVars, impl, runs, dirs, files, credVars>>

NextRegistry ==
  \/ \E o \in ParamOwners, r \in ParamRepos, sc \in BodyScripts : PostScript(o, r, sc)
  \/ \E o \in ParamOwners, r \in ParamRepos, sc \in BodyScripts : ServerPostScript(o, r, sc)
  \/ \E op \in Ops : PostScriptWritten(op)
  \/ \E op \in Ops : PostScriptFailed(op)
  \/ \E o \in ParamOwners, r \in ParamRepos : GetScript(o, r)
  \/ \E op \in Ops : GetScriptRead(op)
  \/ \E op \in Ops : ServerGetScriptRead(op)
  \/ \E op \in Ops : GetScriptFailed(op)
  \/ \E o \in ParamOwners, r \in ParamRepos, b \in ConfigBodies : SaveConfig(o, r, b)
  \/ \E op \in Ops : SaveConfigWritten(op)
  \/ \E op \in Ops : SaveConfigFailed(op)

SpecRegistry == Init /\ [][NextRegistry]_vars

\* ---- the script endpoints of part_000 for several repositories
\* req.params: owners and repository names, with and without "_"
IsoOwners == {<<"a">>, <<"a", "_", "b">>}
IsoRepos == {<<"c">>, <<"b", "_", "c">>}

NextIsolation ==
  \/ \E o \in IsoOwners, r \in IsoRepos : PostScript(o, r, Str(<<"deploy">>))
  \/ \E op \in Ops : PostScriptWritten(op)
  \/ \E op \in Ops : PostScriptFailed(op)
  \/ \E o \in IsoOwners, r \in IsoRepos : GetScript(o, r)
  \/ \E op \in Ops : GetScriptRead(op)
  \/ \E op \in Ops : GetScriptFailed(op)

SpecIsolation == InitLive /\ [][NextIsolation]_vars

\* ============================================================ credential store (part_000)
MaxAuths == 3

Tokens == {"t1", "t2"}

\* tokenData: the JSON answer of https://github.com/login/oauth/access_token
TokenData(token) ==
  [access_token |-> Str(<<token>>), scope |-> Str(<<"repo">>), error |-> Undef]
ErrorData ==
  [access_token |-> Undef, scope |-> Undef, error |-> Str(<<"bad_verification_code">>)]
NoData == [access_token |-> Undef, scope |-> Undef, error |-> Undef]

Exchanges == {TokenData(t) : t \in Tokens} \cup {ErrorData}

\* req.query.code
Codes == {Undef, Str(<<"c">>)}

TokenJsonBearerOnly(data) == data.access_token.v

\* JSON.stringify(tokenData, null, 2)
TokenJson(data) ==
  <<"{">> \o Member("access_token", data.access_token) \o Member("scope", data.scope)
          \o Member("error", data.error) \o <<"}">>

\* a token file cut short: JSON.parse throws on it
Corrupt == <<"{", "access_token", ":">>

\* the value of one member of a stored object, Undef when it has none
RECURSIVE MemberValue(_, _)
MemberValue(text, key) ==
  IF Len(text) < 5 THEN Undef
  ELSE IF text[1] = key /\ text[2] = ":" THEN Str(<<text[4]>>)
  ELSE MemberValue(Tail(text), key)

\* JSON.parse(text): the object, or a SyntaxError
ParseOk(text) == Len(text) >= 2 /\ text[1] = "{" /\ text[Len(text)] = "}"
Parse(text) ==
  [access_token |-> MemberValue(text, "access_token"),
   scope |-> MemberValue(text, "scope"),
   error |-> MemberValue(text, "error")]

\* One record per request to the callback, reauthorize and auth-status
\* endpoints.  t0 and seq number the arrival and the answer of the request among
\* all events; hadToken, readCalled and prev record what the auth-status handler
\* found in memory and did; json is the body of its response.
NewAuth(kind, at) ==
  [op |-> kind, st |-> "PENDING", status |-> 0, code |-> Undef, data |-> NoData,
   isAuthorized |-> FALSE, json |-> <<>>, hadToken |-> FALSE, readCalled |-> FALSE,
   prev |-> Undef, err |-> "none", t0 |-> at, seq |-> 0]

Auths == BagToSet(auths)
AddAuth(a) == auths (+) SetToBag({a})
ReplaceAuth(old, new) == (auths (-) SetToBag({old})) (+) SetToBag({new})

\* the number of the next event
NextEvent ==
  LET used == {a.t0 : a \in Auths} \cup {a.seq : a \in Auths} \cup {0}
  IN 1 + (CHOOSE m \in used : \A k \in used : k <= m)

\* res.status(code)... / res.redirect / res.json: the request is answered
Reply(a, code, at) == [a EXCEPT !.st = "DONE", !.status = code, !.seq = at]

\* ---- GET /cd/api/github/callback
\* if (!code) return 400, else up to await fetch(...)
CallbackStart(code, at) ==
  LET a == [NewAuth("callback", at) EXCEPT !.code = code]
  IN IF ~Truthy(code) THEN Reply(a, 400, at) ELSE [a EXCEPT !.st = "FETCHING"]

Callback(code) ==
  /\ BagCardinality(auths) < MaxAuths
  /\ auths' = AddAuth(CallbackStart(code, NextEvent))
  /\ UNCHANGED <<orgVars, bootVars, proxyVars, impl, runs, dirs, files, regVars, accessToken, tokenFile>>

\* tokenData arrives without error: accessToken = tokenData.access_token,
\* then up to await fs.writeFile(TOKEN_PATH, ...)
CallbackExchanged(a, data) ==
  /\ a.op = "callback" /\ a.st = "FETCHING"
  /\ ~Truthy(data.error)
  /\ accessToken' = data.access_token
  /\ auths' = ReplaceAuth(a, [a EXCEPT !.st = "WRITING", !.data = data])
  /\ UNCHANGED <<orgVars, bootVars, proxyVars, impl, runs, dirs, files, regVars, tokenFile>>

\* fetch rejects, or tokenData.error is set: throw, 500 "Authorization failed."
CallbackRefused(a, data) ==
  /\ a.op = "callback" /\ a.st = "FETCHING"
  /\ data \in {NoData, ErrorData}
  /\ auths' = ReplaceAuth(a, Reply([a EXCEPT !.err = "exchange"], 500, NextEvent))
  /\ UNCHANGED <<orgVars, bootVars, proxyVars, impl, runs, dirs, files, regVars, accessToken, tokenFile>>

\* fs.writeFile resolves: res.redirect(`${HOST}/cd`)
CallbackWritten(a) ==
  /\ a.op = "callback" /\ a.st = "WRITING"
  /\ tokenFile' = [exists |-> TRUE, text |-> TokenJson(a.data)]
  /\ auths' = ReplaceAuth(a, Reply(a, 302, NextEvent))
  /\ UNCHANGED <<orgVars, bootVars, proxyVars, impl, runs, dirs, files, regVars, accessToken>>

\* fs.writeFile rejects (the file could not be opened): 500
CallbackWriteFailed(a) ==
  /\ a.op = "callback" /\ a.st = "WRITING"
  /\ auths' = ReplaceAuth(a, Reply([a EXCEPT !.err = "EIO"], 500, NextEvent))
  /\ UNCHANGED <<orgVars, bootVars, proxyVars, impl, runs, dirs, files, regVars, accessToken, tokenFile>>

\* ---- POST /cd/api/reauthorize
\* accessToken = null, then up to await fs.unlink(TOKEN_PATH)
Reauthorize ==
  /\ BagCardinality(auths) < MaxAuths
  /\ accessToken' = Undef
  /\ auths' = AddAuth([NewAuth("reauthorize", NextEvent) EXCEPT !.st = "UNLINKING"])
  /\ UNCHANGED <<orgVars, bootVars, proxyVars, impl, runs, dirs, files, regVars, tokenFile>>

ReauthorizeUnlinkedOpStrict(a, at) ==
  IF tokenFile.exists
  THEN Reply(a, 200, at)
  ELSE Reply([a EXCEPT !.err = "ENOENT"], 500, at)

\* fs.unlink resolves: 200; rejects with ENOENT: 200 as well
ReauthorizeUnlinkedOp(a, at) ==
  IF tokenFile.exists
  THEN Reply(a, 200, at)
  ELSE Reply([a EXCEPT !.err = "ENOENT"], 200, at)

ReauthorizeUnlinked(a) ==
  /\ a.op = "reauthorize" /\ a.st = "UNLINKING"
  /\ tokenFile' = NoFile
  /\ auths' = ReplaceAuth(a, ReauthorizeUnlinkedOp(a, NextEvent))
  /\ UNCHANGED <<orgVars, bootVars, proxyVars, impl, runs, dirs, files, regVars, accessToken>>

\* fs.unlink rejects with another error: 500 "Failed to clear access token."
ReauthorizeFailed(a) ==
  /\ a.op = "reauthorize" /\ a.st = "UNLINKING"
  /\ tokenFile.exists
  /\ auths' = ReplaceAuth(a, Reply([a EXCEPT !.err = "EIO"], 500, NextEvent))
  /\ UNCHANGED <<orgVars, bootVars, proxyVars, impl, runs, dirs, files, regVars, accessToken, tokenFile>>

\* ---- GET /cd/api/auth-status
AuthStatusBodyLeaky(token) ==
  <<"{", "isAuthorized", ":", IF Truthy(token) THEN "true" ELSE "false", ",",
    "token", ":">> \o token.v \o <<"}">>

\* the body of res.json({ isAuthorized: !!accessToken })
AuthStatusBody(token) ==
  <<"{", "isAuthorized", ":", IF Truthy(token) THEN "true" ELSE "false", "}">>

\* if (!accessToken) up to await fs.readFile(TOKEN_PATH), else res.json at once
AuthStatusStart(at) ==
  LET a == NewAuth("status", at)
  IN IF Truthy(accessToken)
     THEN [Reply(a, 200, at) EXCEPT !.hadToken = TRUE, !.isAuthorized = TRUE,
                                    !.json = AuthStatusBody(accessToken)]
     ELSE [a EXCEPT !.st = "READING", !.readCalled = TRUE]

AuthStatus ==
  /\ BagCardinality(auths) < MaxAuths
  /\ auths' = AddAuth(AuthStatusStart(NextEvent))
  /\ UNCHANGED <<orgVars, bootVars, proxyVars, impl, runs, dirs, files, regVars, accessToken, tokenFile>>

LoadedTokenNoFill(file, held) == held

\* the token in memory after the try block: tokenData.access_token when the
\* file was read and parsed, what memory held when the catch block ran
LoadedToken(file, held) ==
  IF file.exists /\ ParseOk(file.text) THEN Parse(file.text).access_token ELSE held

\* why the try block failed, if it did
LoadError(file) ==
  IF ~file.exists THEN "ENOENT" ELSE IF ~ParseOk(file.text) THEN "parse" ELSE "none"

\* fs.readFile resolves or rejects with ENOENT, JSON.parse, the assignment and
\* res.json({ isAuthorized: !!accessToken })
AuthStatusLoaded(a) ==
  /\ a.op = "status" /\ a.st = "READING"
  /\ accessToken' = LoadedToken(tokenFile, accessToken)
  /\ auths' = ReplaceAuth(a,
       [Reply(a, 200, NextEvent) EXCEPT
          !.err = LoadError(tokenFile),
          !.prev = accessToken,
          !.isAuthorized = Truthy(LoadedToken(tokenFile, accessToken)),
          !.json = AuthStatusBody(LoadedToken(tokenFile, accessToken))])
  /\ UNCHANGED <<orgVars, bootVars, proxyVars, impl, runs, dirs, files, regVars, tokenFile>>

\* fs.readFile rejects with another error: logged, res.json({ isAuthorized: !!accessToken })
AuthStatusReadFailed(a) ==
  /\ a.op = "status" /\ a.st = "READING"
  /\ tokenFile.exists
  /\ auths' = ReplaceAuth(a,
       [Reply(a, 200, NextEvent) EXCEPT
          !.err = "EIO", !.prev = accessToken, !.isAuthorized = Truthy(accessToken),
          !.json = AuthStatusBody(accessToken)])
  /\ UNCHANGED <<orgVars, bootVars, proxyVars, impl, runs, dirs, files, regVars, accessToken, tokenFile>>

\* the process starts with accessToken = null; the token file is what an
\* earlier process left: nothing, a stored exchange, or a damaged file
InitCred ==
  /\ impl = "main"
  /\ NoOrgs
  /\ env = FullEnv /\ boot = Listening /\ calls = EmptyBag
  /\ runs = EmptyBag /\ dirs = {} /\ files = [p \in {} |-> <<>>] /\ ops = EmptyBag
  /\ accessToken = Undef
  /\ auths = EmptyBag
  /\ tokenFile \in {NoFile,
                    [exists |-> TRUE, text |-> TokenJson(TokenData("t1"))],
                    [exists |-> TRUE, text |-> Corrupt]}

NextCred ==
  \/ \E code \in Codes : Callback(code)
  \/ \E a \in Auths, data \in Exchanges : CallbackExchanged(a, data)
  \/ \E a \in Auths, data \in {NoData, ErrorData} : CallbackRefused(a, data)
  \/ \E a \in Auths : CallbackWritten(a)
  \/ \E a \in Auths : CallbackWriteFailed(a)
  \/ Reauthorize
  \/ \E a \in Auths : ReauthorizeUnlinked(a)
  \/ \E a \in Auths : ReauthorizeFailed(a)
  \/ AuthStatus
  \/ \E a \in Auths : AuthStatusLoaded(a)
  \/ \E a \in Auths : AuthStatusReadFailed(a)

SpecCred == InitCred /\ [][NextCred]_vars

\* ============================================================ provider proxies (part_000)
MaxCalls == 2

\* GET repos, GET hooks, DELETE hook, POST add-webhook, GET branches
Endpoints == {"repos", "hooks", "deleteHook", "addWebhook", "branches"}

\* req.body.repoName of POST /cd/api/add-webhook
RepoNames == {Undef, Str(<<"acme", "/", "app">>)}

\* what a fetch of the provider settles with: a response with its status
\* (response.ok is status in 200..299), or a rejection (status 0)
Rejected == 0
ProviderAnswers == {200, 404, 422, Rejected}
Ok(answer) == answer >= 200 /\ answer <= 299

\* the organisations GET /user/orgs lists
OrgCounts == {0, 1}

\* One record per request to a proxy endpoint.  fetches counts the provider
\* calls issued, answer is the last provider status seen; body tells what the
\* response carries: "generic" a fixed message, "data" the provider's JSON on
\* success, "provider" the provider's error body.
NewCall(ep, repoName) ==
  [ep |-> ep, repoName |-> repoName, st |-> "PENDING", step |-> "none",
   status |-> 0, body |-> "none", fetches |-> 0, answer |-> Rejected]

Calls == BagToSet(calls)
AddCall(c) == calls (+) SetToBag({c})
ReplaceCall(old, new) == (calls (-) SetToBag({old})) (+) SetToBag({new})

\* res.status(code).json(...) / .send(...)
Send(c, code, body) == [c EXCEPT !.st = "DONE", !.status = code, !.body = body]

\* await fetch(...) is called
Fetch(c, step) == [c EXCEPT !.st = "FETCHING", !.step = step, !.fetches = c.fetches + 1]

ProxyStartReloads(ep, repoName) ==
  LET c == NewCall(ep, repoName)
      held == Truthy(accessToken) \/ tokenFile.exists
  IN
  IF ep = "addWebhook"
  THEN IF ~held \/ ~Truthy(repoName)
       THEN Send(c, 400, "generic")
       ELSE Fetch(c, "hook")
  ELSE IF ~held
       THEN Send(c, 401, "generic")
       ELSE Fetch(c, IF ep = "repos" THEN "user" ELSE "only")

\* the handler up to its first await: the token check, then the first fetch
ProxyStart(ep, repoName) ==
  LET c == NewCall(ep, repoName) IN
  IF ep = "addWebhook"
  THEN IF ~Truthy(accessToken) \/ ~Truthy(repoName)
       THEN Send(c, 400, "generic")
       ELSE Fetch(c, "hook")
  ELSE IF ~Truthy(accessToken)
       THEN Send(c, 401, "generic")
       ELSE Fetch(c, IF ep = "repos" THEN "user" ELSE "only")

Proxy(ep, repoName) ==
  /\ boot.phase = "LISTENING"
  /\ BagCardinality(calls) < MaxCalls
  /\ (ep # "addWebhook") => repoName = Undef
  /\ calls' = AddCall(ProxyStart(ep, repoName))
  /\ UNCHANGED <<orgVars, bootVars, impl, runs, dirs, files, regVars, credVars>>

\* GET /cd/api/repos after one of its fetches settled: user repos, then the
\* organisations, then the repos of every organisation (Promise.all)
ReposAnswered(c, answer, orgs) ==
  LET seen == [c EXCEPT !.answer = answer] IN
  IF ~Ok(answer) THEN Send(seen, 500, "generic")
  ELSE IF c.step = "user" THEN Fetch(seen, "orgs")
  ELSE IF c.step = "orgs" /\ orgs > 0 THEN Fetch(seen, "orgRepos")
  ELSE Send(seen, 200, "data")

\* hooks, branches, delete hook: if (!response.ok) throw -> catch -> 500
PlainAnswered(c, answer) ==
  LET seen == [c EXCEPT !.answer = answer] IN
  IF ~Ok(answer) THEN Send(seen, 500, "generic") ELSE Send(seen, 200, "data")

\* add-webhook: a rejected fetch -> catch -> 500; if (!response.ok) return
\* res.status(response.status).json({ error, details: responseBody }); else 201
AddWebhookAnswered(c, answer) ==
  LET seen == [c EXCEPT !.answer = answer] IN
  IF answer = Rejected THEN Send(seen, 500, "generic")
  ELSE IF ~Ok(answer) THEN Send(seen, answer, "provider")
  ELSE Send(seen, 201, "generic")

ProxyAnswered(c, answer, orgs) ==
  /\ c.st = "FETCHING"
  /\ (c.step # "orgs") => orgs = 0
  /\ calls' = ReplaceCall(c,
       CASE c.ep = "repos" -> ReposAnswered(c, answer, orgs)
         [] c.ep = "addWebhook" -> AddWebhookAnswered(c, answer)
         [] OTHER -> PlainAnswered(c, answer))
  /\ UNCHANGED <<orgVars, bootVars, impl, runs, dirs, files, regVars, credVars>>

\* the state after one completed OAuth exchange: token t1 in memory and in the
\* token file
FirstExchange ==
  Reply([CallbackStart(Str(<<"c">>), 1) EXCEPT !.st = "WRITING", !.data = TokenData("t1")],
        302, 2)

Authorized ==
  /\ accessToken = Str(<<"t1">>)
  /\ tokenFile = [exists |-> TRUE, text |-> TokenJson(TokenData("t1"))]
  /\ auths = SetToBag({FirstExchange})

\* the server before any OAuth exchange, or after the first one
InitProxy ==
  /\ impl = "main"
  /\ NoOrgs
  /\ env = FullEnv /\ boot = Listening /\ calls = EmptyBag
  /\ runs = EmptyBag /\ dirs = {} /\ files = [p \in {} |-> <<>>] /\ ops = EmptyBag
  /\ \/ accessToken = Undef /\ tokenFile = NoFile /\ auths = EmptyBag
     \/ Authorized

NextProxy ==
  \/ \E ep \in Endpoints, repoName \in RepoNames : Proxy(ep, repoName)
  \/ \E c \in Calls, answer \in ProviderAnswers, orgs \in OrgCounts :
       ProxyAnswered(c, answer, orgs)

SpecProxy == InitProxy /\ [][NextProxy]_vars

\* ============================================================ startup (part_000, server.js)
\* a variable is unset, set to the empty string, or set
Envs == [EnvNames -> {Undef, Str(<<>>)}] \cup {FullEnv}
        \cup {[FullEnv EXCEPT ![name] = v] : name \in EnvNames, v \in {Undef, Str(<<>>)}}

\* path.resolve("./scripts")
DefaultScriptsDir == <<"/", "cwd", "/", "scripts">>

\* const SCRIPTS_DIR = process.env.SCRIPTS_DIR || path.resolve("./scripts")
ScriptsDirOf(e) ==
  IF Truthy(e["SCRIPTS_DIR"]) THEN e["SCRIPTS_DIR"].v ELSE DefaultScriptsDir

\* the three checks: if (!TOKEN_PATH) throw; if (!HOST) throw; if (!SCRIPTS_DIR) throw
StartupThrows(e) ==
  \/ ~Truthy(e["GITHUB_TOKEN_PATH"])
  \/ ~Truthy(e["HOST"])
  \/ ScriptsDirOf(e) = <<>>

\* the module is evaluated down to await fs.mkdir(SCRIPTS_DIR, { recursive: true })
BootChecks ==
  /\ boot.phase = "LOADING"
  /\ boot' = IF StartupThrows(env)
             THEN [boot EXCEPT !.phase = "FAILED"]
             ELSE [boot EXCEPT !.phase = "MKDIR", !.scriptsDir = ScriptsDirOf(env)]
  /\ UNCHANGED <<orgVars, env, proxyVars, impl, runs, dirs, files, regVars, credVars>>

\* fs.mkdir resolves: the routes are registered and ViteExpress.listen is called
BootMkdirOk ==
  /\ boot.phase = "MKDIR"
  /\ dirs' = dirs \cup {boot.scriptsDir}
  /\ boot' = [boot EXCEPT !.phase = "LISTENING"]
  /\ UNCHANGED <<orgVars, env, proxyVars, impl, runs, files, regVars, credVars>>

\* fs.mkdir rejects: the top-level await throws and the process exits
BootMkdirFail ==
  /\ boot.phase = "MKDIR"
  /\ boot' = [boot EXCEPT !.phase = "FAILED"]
  /\ UNCHANGED <<orgVars, env, proxyVars, impl, runs, dirs, files, regVars, credVars>>

\* the URL GET /cd/api/auth/github redirects to
AuthorizeUrl(e) ==
  <<"https://github.com/login/oauth/authorize", "?client_id=">>
    \o Interpolate(e["GITHUB_CLIENT_ID"])
    \o <<"&redirect_uri=">> \o Interpolate(e["HOST"]) \o <<"/cd/api/github/callback">>

\* GET /cd/api/auth/github: the server serves a request
AuthGithub ==
  /\ boot.phase = "LISTENING"
  /\ boot' = [boot EXCEPT !.redirect = AuthorizeUrl(env)]
  /\ UNCHANGED <<orgVars, env, proxyVars, impl, runs, dirs, files, regVars, credVars>>

\* the process is started with some environment
InitBoot ==
  /\ impl \in {"main", "server"}
  /\ NoOrgs
  /\ env \in Envs
  /\ boot = Booting
  /\ calls = EmptyBag
  /\ runs = EmptyBag /\ dirs = {} /\ files = [p \in {} |-> <<>>] /\ ops = EmptyBag
  /\ accessToken = Undef /\ tokenFile = NoFile /\ auths = EmptyBag

NextBoot ==
  \/ BootChecks
  \/ BootMkdirOk
  \/ BootMkdirFail
  \/ AuthGithub

SpecBoot == InitBoot /\ [][NextBoot]_vars

\* ------------------------------------------------------------ all endpoints together
\* The endpoints of part_000 side by side: webhook runs, the script and
\* config endpoints, the credential endpoints and the provider proxies.
MaxRequests == 3

\* the requests received so far
Requests ==
  BagCardinality(runs) + BagCardinality(ops) + BagCardinality(auths)
    + BagCardinality(calls)

\* pushes of acme/app to two branches
AllPayloads ==
  {BasePush,
   [BasePush EXCEPT !.ref = Str(<<"refs", "/", "heads", "/", "release", "/", "v2">>)]}

\* req.body of POST .../config: a complete configuration, and an empty body
AllConfigs ==
  {NoOpBody,
   [NoOpBody EXCEPT !.branch = Str(<<"staging">>), !.workingDir = Str(<<"/", "srv">>)]}

\* the process has just started: no token in memory; the token file is what
\* the process before it left
InitAll ==
  /\ impl = "main"
  /\ NoOrgs
  /\ env = FullEnv /\ boot = Listening /\ calls = EmptyBag
  /\ runs = EmptyBag /\ dirs = {} /\ files = [p \in {} |-> <<>>] /\ ops = EmptyBag
  /\ accessToken = Undef
  /\ auths = EmptyBag
  /\ tokenFile \in {NoFile, [exists |-> TRUE, text |-> TokenJson(TokenData("t1"))]}

NextAll ==
  \/ Requests < MaxRequests /\ \E p \in AllPayloads : Webhook(p)
  \/ \E run \in Runs : WebhookMkdirOk(run)
  \/ \E run \in Runs : WebhookMkdirFail(run)
  \/ \E run \in Runs, code \in {0, 1} : WebhookGitClose(run, code)
  \/ \E run \in Runs, code \in {0, 1, 127} : WebhookScriptClose(run, code)
  \/ Requests < MaxRequests
       /\ \E o \in ParamOwners, r \in ParamRepos : PostScript(o, r, Str(<<"deploy">>))
  \/ \E op \in Ops : PostScriptWritten(op)
  \/ \E op \in Ops : PostScriptFailed(op)
  \/ Requests < MaxRequests
       /\ \E o \in ParamOwners, r \in ParamRepos, b \in AllConfigs : SaveConfig(o, r, b)
  \/ \E op \in Ops : SaveConfigWritten(op)
  \/ \E op \in Ops : SaveConfigFailed(op)
  \/ Requests < MaxRequests /\ Callback(Str(<<"c">>))
  \/ \E a \in Auths : CallbackExchanged(a, TokenData("t2"))
  \/ \E a \in Auths : CallbackRefused(a, ErrorData)
  \/ \E a \in Auths : CallbackWritten(a)
  \/ \E a \in Auths : CallbackWriteFailed(a)
  \/ Requests < MaxRequests /\ Reauthorize
  \/ \E a \in Auths : ReauthorizeUnlinked(a)
  \/ \E a \in Auths : ReauthorizeFailed(a)
  \/ Requests < MaxRequests /\ AuthStatus
  \/ \E a \in Auths : AuthStatusLoaded(a)
  \/ \E a \in Auths : AuthStatusReadFailed(a)
  \/ Requests < MaxRequests
       /\ \E ep \in Endpoints, repoName \in RepoNames : Proxy(ep, repoName)
  \/ \E c \in Calls, answer \in {200, 404} : ProxyAnswered(c, answer, 0)

SpecAll == InitAll /\ [][NextAll]_vars

\* ------------------------------------------------------------ tokens per organisation
\* src/unnamed/part_001 (impl = "org"): one token per organisation, kept in
\* the object orgTokens; there is no token file.
MaxOrgOps == 3

\* req.query.org
OrgNames == {Undef, Str(<<>>), Str(<<"A">>), Str(<<"B">>)}

\* One record per request that names an organisation.
NewOrgOp(kind, org) ==
  [op |-> kind, org |-> org, st |-> "PENDING", status |-> 0, isAuthorized |-> FALSE]

OrgOps == BagToSet(orgOps)
AddOrgOp(a) == orgOps (+) SetToBag({a})
ReplaceOrgOp(old, new) == (orgOps (-) SetToBag({old})) (+) SetToBag({new})

\* res.status(code).send(...) / res.redirect / res.json
OrgReply(a, code) == [a EXCEPT !.st = "DONE", !.status = code]

OrgSetAll(tokens, org, token) == [k \in DOMAIN tokens |-> token]

\* orgTokens[org] = tokenData.access_token
OrgSet(tokens, org, token) == [tokens EXCEPT ![org] = token]

\* ---- GET /auth/github: if (!org) return 400, else res.redirect(redirectUri)
OrgAuthGithub(org) ==
  /\ impl = "org"
  /\ BagCardinality(orgOps) < MaxOrgOps
  /\ orgOps' = AddOrgOp(OrgReply(NewOrgOp("authorize", org),
                                 IF ~Truthy(org) THEN 400 ELSE 302))
  /\ UNCHANGED <<orgTokens, bootVars, proxyVars, impl, runs, dirs, files, regVars, credVars>>

\* ---- GET /cd/api/github/callback: if (!org) return 400, else up to await fetch(...)
OrgCallbackStart(org) ==
  LET a == NewOrgOp("callback", org)
  IN IF ~Truthy(org) THEN OrgReply(a, 400) ELSE [a EXCEPT !.st = "FETCHING"]

OrgCallback(org) ==
  /\ impl = "org"
  /\ BagCardinality(orgOps) < MaxOrgOps
  /\ orgOps' = AddOrgOp(OrgCallbackStart(org))
  /\ UNCHANGED <<orgTokens, bootVars, proxyVars, impl, runs, dirs, files, regVars, credVars>>

\* tokenData arrives without error: orgTokens[org] = tokenData.access_token,
\* res.redirect("/")
OrgCallbackExchanged(a, data) ==
  /\ a.op = "callback" /\ a.st = "FETCHING"
  /\ ~Truthy(data.error)
  /\ orgTokens' = OrgSet(orgTokens, a.org.v, data.access_token)
  /\ orgOps' = ReplaceOrgOp(a, OrgReply(a, 302))
  /\ UNCHANGED <<bootVars, proxyVars, impl, runs, dirs, files, regVars, credVars>>

\* fetch rejects, or tokenData.error is set: throw, 500 "Authorization failed."
OrgCallbackRefused(a) ==
  /\ a.op = "callback" /\ a.st = "FETCHING"
  /\ orgOps' = ReplaceOrgOp(a, OrgReply(a, 500))
  /\ UNCHANGED <<orgTokens, bootVars, proxyVars, impl, runs, dirs, files, regVars, credVars>>

\* ---- GET /cd/api/auth-status: if (!org) return 400,
\* else res.json({ isAuthorized: !!orgTokens[org] })
OrgAuthStatusStart(org) ==
  LET a == NewOrgOp("status", org)
  IN IF ~Truthy(org) THEN OrgReply(a, 400)
     ELSE [OrgReply(a, 200) EXCEPT !.isAuthorized = Truthy(orgTokens[org.v])]

OrgAuthStatus(org) ==
  /\ impl = "org"
  /\ BagCardinality(orgOps) < MaxOrgOps
  /\ orgOps' = AddOrgOp(OrgAuthStatusStart(org))
  /\ UNCHANGED <<orgTokens, bootVars, proxyVars, impl, runs, dirs, files, regVars, credVars>>

InitOrg ==
  /\ impl = "org"
  /\ NoOrgs
  /\ env = FullEnv /\ boot = Listening /\ calls = EmptyBag
  /\ runs = EmptyBag /\ dirs = {} /\ files = [p \in {} |-> <<>>] /\ ops = EmptyBag
  /\ accessToken = Undef /\ tokenFile = NoFile /\ auths = EmptyBag

NextOrg ==
  \/ \E org \in OrgNames : OrgAuthGithub(org)
  \/ \E org \in OrgNames : OrgCallback(org)
  \/ \E a \in OrgOps, t \in Tokens : OrgCallbackExchanged(a, TokenData(t))
  \/ \E a \in OrgOps : OrgCallbackRefused(a)
  \/ \E org \in OrgNames : OrgAuthStatus(org)

SpecOrg == InitOrg /\ [][NextOrg]_vars

\* ============================================================ properties
MainRuns == {run \in Runs : impl = "main"}
WebhookRuns == {run \in Runs : run.kind = "webhook"}
ManualRuns == {run \in Runs : run.kind = "manual"}

\* the request was refused by validation: 400, no mkdir, no process
Refused(run) ==
  /\ run.st = "REJECTED" /\ run.status = 400 /\ run.ended
  /\ ~run.mkdirCalled /\ ~run.gitStarted /\ ~run.scriptStarted

\* the handler went past validation and called the executor's first step
Invoked(run) == run.mkdirCalled \/ run.gitStarted \/ run.scriptStarted

---------------------------------------------------------------------------
\* C1: sync-before-run. In every run of part_000 (webhook or manual) the
\* script process is started only after the git process of that run exited
\* with code 0; a run whose git process exited non-zero never starts the script.
C1_SyncBeforeRun ==
  \A run \in MainRuns :
    /\ run.scriptStarted => (run.gitStarted /\ run.gitExit = 0)
    /\ (run.gitExit # NoExit /\ run.gitExit # 0) => ~run.scriptStarted

\* a webhook run and a manual run: one started its script after a clean
\* sync, the other ended with a failed sync
C1_Witness ==
  \E r1 \in MainRuns, r2 \in MainRuns :
    /\ r1.kind = "webhook" /\ r2.kind = "manual"
    /\ \/ r1.scriptStarted /\ r2.st = "SYNC_FAILED"
       \/ r2.scriptStarted /\ r1.st = "SYNC_FAILED"

---------------------------------------------------------------------------
\* a sync+run sequence is executing against the run's working directory
Active(run) == run.gitStarted /\ run.st \in {"SYNCING", "RUNNING"}

\* C2: mutual exclusion per working directory. No two runs that target the
\* same working directory are inside their sync+run sequence at the same time.
C2_MutualExclusion ==
  \A r1 \in Runs :
    Active(r1) =>
      /\ CopiesIn(r1, runs) = 1
      /\ \A r2 \in Runs : (Active(r2) /\ r2.wd = r1.wd) => r2 = r1

---------------------------------------------------------------------------
\* C3: a push payload without repository.name (or without repository) is
\* answered 400; no working directory is created and no process is started.
C3_MissingNameRefused ==
  \A run \in WebhookRuns :
    (~Truthy(run.req.repository) \/ run.req.name = Undef) => Refused(run)

C3_Witness ==
  \E run \in WebhookRuns :
    /\ Truthy(run.req.repository) /\ Truthy(run.req.owner) /\ Truthy(run.req.ref)
    /\ run.req.name = Undef
    /\ run.status = 400

---------------------------------------------------------------------------
\* C4: a push payload whose owner login is missing or empty is answered 400
\* and the executor is never invoked.
C4_MissingLoginRefused ==
  \A run \in WebhookRuns :
    (impl = "main" /\ ~Truthy(run.req.login)) => (Refused(run) /\ ~Invoked(run))

---------------------------------------------------------------------------
HeadsPrefix == <<"refs", "/", "heads", "/">>

\* ref is a string of the form refs/heads/<branch>
IsHeadsRef(ref) ==
  /\ ref.t = "str"
  /\ Len(ref.v) > Len(HeadsPrefix)
  /\ SubSeq(ref.v, 1, Len(HeadsPrefix)) = HeadsPrefix

\* C5: a push payload whose ref is missing, or is a string that is not of
\* the form refs/heads/<branch> (a tag ref, a ref without a slash), is answered
\* 400 and the executor is never invoked.
C5_BadRefRefused ==
  \A run \in WebhookRuns :
    (impl = "main" /\ run.req.ref.t \in {"undef", "str"} /\ ~IsHeadsRef(run.req.ref))
      => (Refused(run) /\ ~Invoked(run))

---------------------------------------------------------------------------
\* the text of s after its last "/" (all of s when it has none)
AfterLastSlash(s) ==
  LET slashes == {k \in 1..Len(s) : s[k] = "/"}
      last == IF slashes = {} THEN 0
              ELSE CHOOSE k \in slashes : \A j \in slashes : j <= k
  IN SubSeq(s, last + 1, Len(s))

\* C6: branch extraction. For every accepted push payload the branch handed
\* to the sync step is the text of ref after its final "/".
C6_BranchAfterLastSlash ==
  \A run \in WebhookRuns :
    (impl = "main" /\ Invoked(run)) => run.branch = AfterLastSlash(run.req.ref.v)

\* a sync was started for a ref with several slashes and for one with none
C6_Witness ==
  /\ \E run \in WebhookRuns :
       impl = "main" /\ run.gitStarted /\ Len(Split(run.req.ref.v)) > 3
  /\ \E run \in WebhookRuns :
       impl = "main" /\ run.gitStarted /\ Len(Split(run.req.ref.v)) = 1

---------------------------------------------------------------------------
ReleaseRef == Str(<<"refs", "/", "heads", "/", "release", "/", "v2">>)

\* C7 as stated: for ref = "refs/heads/release/v2" the branch extracted and
\* used for the git sync is release/v2.
C7_BranchIsReleaseV2 ==
  \A run \in WebhookRuns :
    (impl = "main" /\ Invoked(run) /\ run.req.ref = ReleaseRef)
      => run.branch = <<"release", "/", "v2">>

\* C7 amended: for ref = "refs/heads/release/v2" the branch extracted and
\* used for the git sync is v2, the text after the final "/".
C7_BranchIsV2 ==
  \A run \in WebhookRuns :
    (impl = "main" /\ Invoked(run) /\ run.req.ref = ReleaseRef)
      => run.branch = <<"v2">>

C7_Witness ==
  \E run \in WebhookRuns :
    impl = "main" /\ run.req.ref = ReleaseRef /\ run.gitStarted /\ run.gitExit = 0

---------------------------------------------------------------------------
\* C8: a manual run-script request with a missing or empty branch or a
\* missing or empty workingDir is answered 400; no directory is created and
\* no git or script process is started.
C8_ManualValidation ==
  \A run \in ManualRuns :
    (~Truthy(run.req.branch) \/ ~Truthy(run.req.workingDir)) => Refused(run)

\* one request refused for its branch alone and one for its workingDir alone
C8_Witness ==
  /\ \E run \in ManualRuns :
       ~Truthy(run.req.branch) /\ Truthy(run.req.workingDir) /\ run.status = 400
  /\ \E run \in ManualRuns :
       Truthy(run.req.branch) /\ run.req.workingDir = Str(<<>>) /\ run.status = 400

---------------------------------------------------------------------------
\* the payload passed the validation of the webhook handler
PassedValidation(run) == run.st # "REJECTED"

\* C9 as stated: every webhook run that passes payload validation is
\* answered with status 200, whatever its outcome.
C9_WebhookAlways200 ==
  \A run \in WebhookRuns :
    (PassedValidation(run) /\ run.ended) => run.status = 200

\* C9 amended: in part_000 a webhook run that passes validation is answered
\* 200 whatever the outcome of its sync and its script (sync failure, script
\* failure, missing script, success), and 500 when the creation of the working
\* directory fails or the router answers for a handler that threw; the older
\* handler of server.js answers 404 for a missing
\* script, 500 for a failed script or access check and 200 for success.
C9_WebhookStatus ==
  \A run \in WebhookRuns :
    (PassedValidation(run) /\ run.ended) =>
      IF impl = "main"
      THEN /\ run.st \in {"SYNC_FAILED", "SCRIPT_FAILED", "SUCCEEDED", "MKDIR_FAILED", "THREW"}
           /\ run.status = IF run.st \in {"MKDIR_FAILED", "THREW"} THEN 500 ELSE 200
      ELSE /\ run.st \in {"NOT_FOUND", "ACCESS_FAILED", "SCRIPT_FAILED", "SUCCEEDED"}
           /\ run.status = CASE run.st = "NOT_FOUND" -> 404
                             [] run.st = "SUCCEEDED" -> 200
                             [] OTHER -> 500

\* part_000 answered a failed sync and a failed script (missing file)
C9_Witness ==
  /\ impl = "main"
  /\ \E run \in WebhookRuns : run.st = "SYNC_FAILED" /\ run.status = 200
  /\ \E run \in WebhookRuns : run.st = "SCRIPT_FAILED" /\ run.scriptExit = 127

---------------------------------------------------------------------------
\* C10: a manual run answers 200 only if its git sync and its script both
\* exited with code 0; a failed sync or a script that exits non-zero is
\* answered 500, never 200.
C10_ManualStatus ==
  \A run \in ManualRuns :
    /\ run.status = 200 => (run.gitExit = 0 /\ run.scriptExit = 0)
    /\ (run.gitExit \notin {NoExit, 0} \/ run.scriptExit \notin {NoExit, 0})
         => (run.status = 500 /\ run.ended)

\* one manual run answered 200 and one answered after its script failed
C10_Witness ==
  /\ \E run \in ManualRuns : run.status = 200
  /\ \E run \in ManualRuns : run.st = "SCRIPT_FAILED"

---------------------------------------------------------------------------
\* C11: in the webhook path, a run for a repository with no script file ends
\* in a "script not found" state of its own: no script process is started for
\* it and it ends neither as SCRIPT_FAILED nor as SUCCEEDED.
C11_ScriptNotFound ==
  \A run \in WebhookRuns :
    /\ run.scriptStarted => run.scriptSeen.exists
    /\ (run.st \in {"SCRIPT_FAILED", "SUCCEEDED"}) => run.scriptSeen.exists

---------------------------------------------------------------------------
\* C12: a run of part_000 whose script file is empty and whose sync succeeded
\* ends in SUCCEEDED, and no script output chunk is written to its response.
C12_EmptyScriptSucceeds ==
  \A run \in MainRuns :
    (run.scriptStarted /\ run.scriptSeen.exists /\ run.scriptSeen.text = <<>>) =>
      /\ run.gitExit = 0
      /\ run.out = <<>>
      /\ run.ended => (run.st = "SUCCEEDED" /\ run.status = 200)
      /\ run.st \in {"RUNNING", "SUCCEEDED"}

\* a webhook run and a manual run ended after running an empty script
C12_Witness ==
  \E r1 \in MainRuns, r2 \in MainRuns :
    /\ r1.kind = "webhook" /\ r2.kind = "manual"
    /\ \A r \in {r1, r2} :
         r.ended /\ r.scriptStarted /\ r.scriptSeen.exists /\ r.scriptSeen.text = <<>>

---------------------------------------------------------------------------
GetOps == {op \in Ops : op.op = "get"}
SaveOps == {op \in Ops : op.op = "save"}
ConfigOps == {op \in Ops : op.op = "config"}

\* the read of g completed and did not fail with an I/O error
ReadDone(g) == g.st = "DONE" /\ g.err # "EIO"

\* the successful saves for the identity of g that completed before the read of g
SavesBefore(g) ==
  {sv \in SaveOps : /\ sv.owner = g.owner /\ sv.repo = g.repo
                    /\ sv.status = 200 /\ sv.seq < g.seq}

\* C13: for an identity for which no script was ever saved, reading the
\* script succeeds with the empty string; absence is never an error status.
C13_NeverSavedReadsEmpty ==
  \A g \in GetOps :
    (ReadDone(g) /\ SavesBefore(g) = {}) => (g.status = 200 /\ g.script = <<>>)

---------------------------------------------------------------------------
\* the last of a non-empty set of completed saves
LastSave(saves) == CHOOSE sv \in saves : \A other \in saves : other.seq <= sv.seq

---------------------------------------------------------------------------
\* C15: saving an empty script text is accepted with a success response and
\* the file is written (cleared).
C15_EmptySaveAccepted ==
  \A sv \in SaveOps :
    (sv.body.script = Str(<<>>) /\ sv.st = "DONE" /\ sv.err # "EIO")
      => (sv.status = 200 /\ sv.seq > 0)

---------------------------------------------------------------------------
\* the body of a config request lacks a branch or a working directory
ConfigIncomplete(body) == ~Truthy(body.branch) \/ ~Truthy(body.workingDir)

\* C16: SaveConfig with a missing or empty branch or workingDir is answered
\* 400 without any write; every stored configuration is the body of a complete
\* request, written as it was sent.
C16_ConfigValidation ==
  /\ \A op \in ConfigOps :
       ConfigIncomplete(op.body) => (op.st = "DONE" /\ op.status = 400 /\ op.seq = 0)
  /\ \A o \in ParamOwners, r \in ParamRepos :
       ReadFile(ConfigPath(o, r)).exists =>
         \E op \in ConfigOps :
           /\ op.owner = o /\ op.repo = r /\ op.status = 200
           /\ ~ConfigIncomplete(op.body)
           /\ ReadFile(ConfigPath(o, r)).text = Stringify(op.body)

\* a stored configuration, and requests refused for the branch and for the directory
C16_Witness ==
  /\ \E o \in ParamOwners, r \in ParamRepos : ReadFile(ConfigPath(o, r)).exists
  /\ \E op \in ConfigOps :
       ~Truthy(op.body.branch) /\ Truthy(op.body.workingDir) /\ op.status = 400
  /\ \E op \in ConfigOps :
       Truthy(op.body.branch) /\ ~Truthy(op.body.workingDir) /\ op.status = 400

\* ------------------------------------------------------------ credential store
ReauthOps == {a \in Auths : a.op = "reauthorize"}
StatusOps == {a \in Auths : a.op = "status"}
CallbackOps == {a \in Auths : a.op = "callback"}

\* a is answered, every other request was answered before a arrived, and none
\* has arrived since: a ran without interference and the state is the one it left
RanAloneLast(a) ==
  /\ a.st = "DONE"
  /\ \A o \in Auths \ {a} : o.st = "DONE" /\ o.seq < a.t0

\* C17: POST /reauthorize answers 200 whether or not a token file existed
\* (unlink resolved, or rejected with ENOENT), and when the request ran without
\* interference it leaves no token in memory and no token file; a repeated
\* call answers and leaves the same.
C17_ClearTokenIdempotent ==
  \A r \in ReauthOps :
    /\ (r.st = "DONE" /\ r.err \in {"none", "ENOENT"}) => r.status = 200
    /\ (RanAloneLast(r) /\ r.status = 200) => (accessToken = Undef /\ ~tokenFile.exists)

\* a reauthorize that removed a stored token, followed by a second one that
\* found nothing to remove; both answered 200
C17_Witness ==
  \E r1 \in ReauthOps, r2 \in ReauthOps :
    /\ r1.st = "DONE" /\ r1.err = "none" /\ r1.status = 200
    /\ r1.seq < r2.t0
    /\ RanAloneLast(r2) /\ r2.err = "ENOENT" /\ r2.status = 200
    /\ \E c \in CallbackOps : c.status = 302 /\ c.seq < r1.t0

\* C18: an auth check that finds a token in memory answers from it without
\* reading the token file; one that finds none reads the file and, run without
\* interference, leaves the file's access_token in memory; when the read or
\* the parse fails it answers 200 "not authorized" and memory stays empty.
C18_GetToken ==
  \A a \in StatusOps :
    /\ a.hadToken => (~a.readCalled /\ a.status = 200 /\ a.isAuthorized)
    /\ (a.st = "DONE" /\ ~a.hadToken) => (a.readCalled /\ a.status = 200)
    /\ (RanAloneLast(a) /\ ~a.hadToken /\ a.err = "none") =>
         /\ tokenFile.exists
         /\ accessToken = Parse(tokenFile.text).access_token
         /\ a.isAuthorized = Truthy(accessToken)
    /\ (RanAloneLast(a) /\ ~a.hadToken /\ a.err # "none") =>
         (~a.isAuthorized /\ accessToken = Undef)

\* one check filled memory from the file and a later one answered from memory
C18_Witness ==
  \E a \in StatusOps, b \in StatusOps :
    /\ a.st = "DONE" /\ ~a.hadToken /\ a.err = "none" /\ a.isAuthorized
    /\ a.seq < b.t0 /\ RanAloneLast(b) /\ b.hadToken
    /\ accessToken = Parse(tokenFile.text).access_token

\* C19: a load from the token file only fills an empty memory: when the load
\* result is applied, memory holds no token.
C19_LoadFillsOnly ==
  \A a \in StatusOps :
    (a.st = "DONE" /\ a.readCalled /\ a.err = "none") => ~Truthy(a.prev)

\* C20: after a callback that ended in the success redirect and ran without
\* interference, memory holds the access_token of the exchanged payload and
\* the token file holds the whole payload of that exchange.
C20_SetToken ==
  \A c \in CallbackOps :
    /\ c.status = 302 => Truthy(c.code) /\ ~Truthy(c.data.error)
    /\ (RanAloneLast(c) /\ c.status = 302) =>
         /\ accessToken = c.data.access_token
         /\ tokenFile.exists
         /\ ParseOk(tokenFile.text)
         /\ Parse(tokenFile.text) = c.data

\* a second exchange replaced the token of a first one, in memory and on file
C20_Witness ==
  \E c1 \in CallbackOps, c2 \in CallbackOps :
    /\ c1.status = 302 /\ c1.seq < c2.t0
    /\ RanAloneLast(c2) /\ c2.status = 302
    /\ c1.data.access_token # c2.data.access_token
    /\ accessToken = c2.data.access_token

\* C21: an OAuth callback that ends with an error response (400, 500) leaves
\* the token in memory and the token file as they were before the request.
\* Stated for the first request after the process started, where "before" is
\* the start state: no token in memory.
C21_FailedCallbackChangesNothing ==
  \A c \in CallbackOps :
    (Auths = {c} /\ c.st = "DONE" /\ c.status \in {400, 500}) => accessToken = Undef

\* ------------------------------------------------------------ provider proxies
\* C22: while no token is held in memory, every proxy endpoint answers 401
\* and issues no provider call.
C22_NoToken401 ==
  ~Truthy(accessToken) =>
    \A c \in Calls : c.st = "DONE" /\ c.status = 401 /\ c.fetches = 0

\* the provider answered the last fetch of the call with a non-2xx status
ProviderFailed(c) == c.st = "DONE" /\ c.fetches > 0 /\ c.answer # Rejected /\ ~Ok(c.answer)

\* C27: when the provider answers a proxied call with a non-2xx status, the
\* endpoint answers with a 5xx status and a generic message; the provider's
\* status and body are not forwarded.
C27_ProviderErrorHidden ==
  \A c \in Calls :
    ProviderFailed(c) => (c.status >= 500 /\ c.status <= 599 /\ c.body = "generic")

\* ------------------------------------------------------------ run state machine
\* the state of the run in the terms of the run state machine: a request whose
\* working directory could not be created, or whose handler threw, never left
\* PENDING
Phase(run) == IF run.st \in {"MKDIR_FAILED", "THREW"} THEN "PENDING" ELSE run.st

Terminal == {"SYNC_FAILED", "SUCCEEDED", "SCRIPT_FAILED"}

\* SYNCED is passed within the close handler of the git process: the step
\* from SYNCING to RUNNING is taken with exit code 0
Edges ==
  {<<"PENDING", "PENDING">>, <<"PENDING", "SYNCING">>,
   <<"SYNCING", "SYNC_FAILED">>, <<"SYNCING", "RUNNING">>,
   <<"RUNNING", "RUNNING">>, <<"RUNNING", "SUCCEEDED">>, <<"RUNNING", "SCRIPT_FAILED">>}

\* this step replaces the record old of a run by the record new
Moves(old, new) ==
  /\ new # old
  /\ runs' = (runs (-) SetToBag({old})) (+) SetToBag({new})

Edge(old, new) ==
  /\ <<Phase(old), Phase(new)>> \in Edges
  /\ (Phase(old) = "SYNCING" /\ Phase(new) = "RUNNING") => new.gitExit = 0
  /\ Phase(new) \in Terminal => (~old.ended /\ new.ended /\ new.out = old.out)

\* C23: every webhook run of part_000 moves only along
\* PENDING -> SYNCING -> (SYNC_FAILED | SYNCED -> RUNNING -> (SUCCEEDED | SCRIPT_FAILED));
\* a run in SYNC_FAILED, SUCCEEDED or SCRIPT_FAILED takes no further step (no
\* state change, no output), and its response was ended by the step that
\* entered that state.
C23_RunStateMachine ==
  [][\A old \in Runs :
       (impl = "main" /\ old.kind = "webhook" /\ old.st # "REJECTED") =>
         \A new \in BagToSet(runs') : Moves(old, new) => Edge(old, new)]_vars

\* one run succeeded after writing output, another failed its sync
C23_Witness ==
  /\ impl = "main"
  /\ \E r1 \in WebhookRuns, r2 \in WebhookRuns :
       /\ r1.st = "SUCCEEDED" /\ r1.ended /\ r1.out # <<>> /\ r1.gitExit = 0
       /\ r2.st = "SYNC_FAILED" /\ r2.ended /\ ~r2.scriptStarted

\* ------------------------------------------------------------ completion
\* the number of requests among S, a set of records of runs
Count(S) == BagCardinality([run \in S |-> CopiesIn(run, runs)])

SyncStarted == {run \in MainRuns : run.gitStarted}
Settled == {run \in SyncStarted : run.ended /\ run.st \in {"SYNC_FAILED", "SCRIPT_FAILED", "SUCCEEDED"}}

\* this step keeps the run old, or replaces it by a later record of the same request
Kept(old) ==
  \/ CopiesIn(old, runs') >= CopiesIn(old, runs)
  \/ \E new \in BagToSet(runs') :
       /\ Moves(old, new)
       /\ new.kind = old.kind /\ new.req = old.req /\ new.wd = old.wd
       /\ new.gitStarted

\* C24: given that a pending file operation settles and a started process
\* exits, every run of part_000 that started its sync reaches a terminal state
\* with its response ended; no step removes or stops a run in progress.
C24_GuaranteedCompletion ==
  /\ [][\A old \in SyncStarted : Kept(old)]_vars
  /\ \A k \in 1..(MaxRuns + 1) : (Count(SyncStarted) >= k) ~> (Count(Settled) >= k)

\* two runs in progress at once, one from each endpoint
C24_Witness ==
  \E r1 \in SyncStarted, r2 \in SyncStarted :
    /\ r1.kind = "webhook" /\ r2.kind = "manual"
    /\ r1.ended /\ r1.st = "SCRIPT_FAILED"
    /\ r2.ended /\ r2.st = "SUCCEEDED"

\* C30: every request to the webhook endpoint of part_000, whatever its body,
\* is answered: with k requests received, sooner or later k responses are
\* ended.
C30_WebhookAlwaysAnswered ==
  \A k \in 1..(MaxRuns + 1) :
    (Count({run \in MainRuns : run.kind = "webhook"}) >= k)
      ~> (Count({run \in MainRuns : run.kind = "webhook" /\ run.ended}) >= k)

\* ------------------------------------------------------------ derived paths
\* webhook runs of part_000 whose handler resolved its paths
Resolved == {run \in MainRuns : run.kind = "webhook" /\ run.mkdirCalled}

\* C25: in the webhook path of part_000 the working directory and the script
\* path are a function of the payload's owner login and repository name: two
\* payloads that agree on both resolve to the same paths whatever else they
\* hold, and a workingDir field of the payload is not used.
C25_PathsFromOwnerRepo ==
  \A r1 \in Resolved :
    /\ r1.wd = PathJoin(SCRIPTS_DIR, Interpolate(r1.req.login) \o <<"_">> \o Interpolate(r1.req.name))
    /\ r1.scriptPath = PathJoin(SCRIPTS_DIR, Interpolate(r1.req.login) \o <<"_">> \o Interpolate(r1.req.name) \o <<".sh">>)
    /\ \A r2 \in Resolved :
         (r1.req.login = r2.req.login /\ r1.req.name = r2.req.name) =>
           (r1.wd = r2.wd /\ r1.scriptPath = r2.scriptPath)

\* two payloads for the same repository, different refs, one of them carrying a
\* workingDir field of its own
C25_Witness ==
  \E r1 \in Resolved, r2 \in Resolved :
    /\ r1.req.login = r2.req.login /\ r1.req.name = r2.req.name
    /\ r1.req.ref # r2.req.ref
    /\ Truthy(r1.req.workingDir) /\ ~Truthy(r2.req.workingDir)
    /\ r1.wd = r2.wd /\ r1.wd # r1.req.workingDir.v

\* ------------------------------------------------------------ what auth-status tells
\* text is part of the response body
InBody(a, text) == \E i \in 1..Len(a.json) : a.json[i] = text

C28_FailFast ==
  boot.phase = "LISTENING" => \A name \in EnvNames : env[name] # Undef

\* ------------------------------------------------------------ streaming
\* C29: in the webhook path every chunk a git or script process wrote is in
\* the response before the exit of that process is handled: nothing is held
\* back when the handler of the exit runs, and chunks reach the response while
\* the process is still running.
C29_IncrementalStreaming ==
  \A run \in MainRuns :
    run.kind = "webhook" =>
      /\ (run.gitExit # NoExit \/ run.ended) => \A i \in 1..Len(run.piped) : run.piped[i] # "git"
      /\ (run.scriptExit # NoExit \/ run.ended) => run.piped = <<>>
      /\ run.st \in {"SYNC_FAILED", "SUCCEEDED", "SCRIPT_FAILED"} => run.piped = <<>>

\* a chunk of git is in the response while git is still running, and a run
\* ended with the script's chunk in its response
C29_Witness ==
  \E r1 \in MainRuns, r2 \in MainRuns :
    /\ r1.kind = "webhook" /\ r1.st = "SYNCING" /\ r1.gitExit = NoExit
    /\ r1.out = <<"git">> /\ r1.piped = <<>> /\ ~r1.ended
    /\ r2.kind = "webhook" /\ r2.st \in {"SUCCEEDED", "SCRIPT_FAILED"}
    /\ r2.out = <<"script">> /\ r2.ended

\* ------------------------------------------------------------ isolation of script records
\* C31: a read of the script of one repository returns what was last saved
\* for that repository (nothing, if nothing was): a save for another
\* repository, whatever "_" its owner or name contains, does not change it.
C31_ScriptsIsolated ==
  \A g \in GetOps :
    ReadDone(g) =>
      g.script = IF SavesBefore(g) = {} THEN <<>>
                 ELSE SavedText(LastSave(SavesBefore(g)).body.script)

\* ------------------------------------------------------------ the credential at rest
\* no callback, reauthorize or auth-status request is in flight
AtRest == \A a \in Auths : a.st = "DONE"

\* C33: whenever no credential request is in flight, the token in memory is
\* absent or equal to the access_token stored in the token file.
C33_ConsistentAtRest ==
  AtRest =>
    \/ ~Truthy(accessToken)
    \/ /\ tokenFile.exists
       /\ ParseOk(tokenFile.text)
       /\ Parse(tokenFile.text).access_token = accessToken

\* no callback can have assigned a token after reauthorize request r began
NoCallbackSince(r) ==
  \A c \in CallbackOps :
    \/ c.status = 400
    \/ c.err = "exchange"
    \/ c.st = "DONE" /\ c.seq < r.t0

\* C34: once a reauthorize request was answered 200, every auth check that
\* begins later reports isAuthorized = false until a callback succeeds again,
\* also when an auth check was in flight as the reauthorize request arrived.
C34_ReauthorizeSticks ==
  \A r \in ReauthOps, s \in StatusOps :
    /\ r.st = "DONE" /\ r.status = 200
    /\ s.st = "DONE" /\ s.t0 > r.seq
    /\ NoCallbackSince(r)
    => ~s.isAuthorized

\* ------------------------------------------------------------ order of the output
\* the webhook runs of part_000 after the step
WebhookRunsAfter(after) ==
  {run \in BagToSet(after) : impl = "main" /\ run.kind = "webhook"}

\* no chunk of the script precedes a chunk of git
GitFirst(out) ==
  \A i \in 1..Len(out), j \in 1..Len(out) :
    (out[i] = "script" /\ out[j] = "git") => j < i

\* C36: in a webhook run every chunk of git is in the response before the
\* script is started, hence before every chunk of the script; the step that
\* ends the response with the terminal text is the last to write to it: an
\* ended run is never changed again, and no chunk is pending when it ends.
C36_OutputOrder ==
  [][/\ \A new \in WebhookRunsAfter(runs') :
          /\ GitFirst(new.out)
          /\ new.scriptStarted => \A i \in 1..Len(new.piped) : new.piped[i] # "git"
          /\ new.ended => new.piped = <<>>
     /\ \A old \in Runs :
          old.ended => CopiesIn(old, runs') >= CopiesIn(old, runs)]_vars

\* a run succeeded with a chunk of git and then a chunk of the script in its
\* response
C36_Witness ==
  \E run \in MainRuns :
    /\ run.kind = "webhook" /\ run.st = "SUCCEEDED" /\ run.ended
    /\ run.out = <<"git", "script">> /\ run.piped = <<>>

\* ------------------------------------------------------------ the endpoints side by side
AcmeApp == ScriptPath(<<"acme">>, <<"app">>)
AcmeConfig == ConfigPath(<<"acme">>, <<"app">>)

\* the file at path p is the same before and after the step
SameFile(p) ==
  /\ p \in DOMAIN files' <=> p \in DOMAIN files
  /\ p \in DOMAIN files => files'[p] = files[p]

\* the step completes the write of a script save for the file at path p
SavesScript(p) ==
  \E op \in BagToSet(ops') :
    /\ op.op = "save" /\ op.st = "DONE" /\ op.status = 200
    /\ ScriptPath(op.owner, op.repo) = p
    /\ CopiesIn(op, ops') > CopiesIn(op, ops)

\* C32: the stored script of a repository is created, changed or removed
\* only by the step that completes a script save for it: no step of a config
\* save, reauthorize, callback, auth check, proxy call or webhook run
\* touches a script file.
C32_ScriptChangedBySaveOnly ==
  [][\A p \in DOMAIN files \cup DOMAIN files' :
       p[Len(p)] = ".sh" => SameFile(p) \/ SavesScript(p)]_vars

\* a script was saved, and a config save, a token exchange and a webhook run
\* went by with the script file in place
C32_Witness ==
  /\ AcmeApp \in DOMAIN files /\ files[AcmeApp] = <<"deploy">>
  /\ \/ AcmeConfig \in DOMAIN files
     \/ \E a \in Auths : a.st = "DONE" /\ a.status \in {200, 302}
     \/ \E run \in WebhookRuns : run.st \in {"SUCCEEDED", "SCRIPT_FAILED"}
  /\ Requests = MaxRequests

\* no auth check has been answered and no callback was received since the
\* process started
NothingLoaded ==
  /\ \A a \in StatusOps : a.st # "DONE"
  /\ CallbackOps = {}

\* C35: from the start of the process until an auth check is served (or a
\* callback arrives), memory holds no token whatever the token file holds,
\* and every proxy call is refused at once without a call to the provider.
C35_ProxiesDoNotReload ==
  NothingLoaded =>
    /\ accessToken = Undef
    /\ \A c \in Calls :
         /\ c.st = "DONE" /\ c.fetches = 0
         /\ c.status = IF c.ep = "addWebhook" THEN 400 ELSE 401

\* the token file holds a token, an auth check is still reading it, and two
\* proxy calls have been refused
C35_Witness ==
  /\ tokenFile = [exists |-> TRUE, text |-> TokenJson(TokenData("t1"))]
  /\ NothingLoaded
  /\ \E a \in StatusOps : a.st = "READING"
  /\ \E c \in Calls : c.ep = "repos" /\ c.status = 401
  /\ \E c \in Calls : c.ep = "addWebhook" /\ c.status = 400 /\ Truthy(c.repoName)

\* C37: a webhook run takes its branch and its working directory from the
\* push payload alone, whatever configuration is saved for the repository,
\* and a valid push to any branch starts a run.
C37_WebhookIgnoresConfig ==
  \A run \in MainRuns :
    (run.kind = "webhook" /\ WebhookValid(run.req) /\ run.req.ref.t = "str") =>
      /\ run.mkdirCalled
      /\ run.branch = BranchOf(run.req.ref.v)
      /\ run.wd = WorkingDir(run.req.login.v, run.req.name.v)

\* a configuration with another branch and directory is saved, and runs for
\* pushes to two branches were started
C37_Witness ==
  /\ AcmeConfig \in DOMAIN files
  /\ files[AcmeConfig] = Stringify([NoOpBody EXCEPT !.branch = Str(<<"staging">>),
                                                    !.workingDir = Str(<<"/", "srv">>)])
  /\ \E run \in WebhookRuns : run.branch = <<"main">> /\ run.st = "PENDING"
  /\ \E run \in WebhookRuns : run.branch = <<"v2">> /\ run.st = "PENDING"

\* C38: a valid push starts a run whether or not a token is held, and no step
\* of a run changes the token in memory or the token file.
C38_RunsApartFromCredential ==
  [][/\ runs' # runs => (accessToken' = accessToken /\ tokenFile' = tokenFile)
     /\ \A new \in WebhookRunsAfter(runs') :
          (WebhookValid(new.req) /\ new.req.ref.t = "str") =>
            new.mkdirCalled /\ new.status \notin {400, 401}]_vars

\* one run is waiting for its mkdir and another ran the script to its end
\* while a token is held in memory and in the token file
C38_Witness ==
  /\ accessToken = Str(<<"t1">>) /\ tokenFile.exists
  /\ \E run \in WebhookRuns : run.st = "PENDING" /\ run.mkdirCalled
  /\ \E run \in WebhookRuns : run.st = "SCRIPT_FAILED" /\ run.scriptExit = 127

\* ------------------------------------------------------------ tokens per organisation
\* the step answers a callback for organisation k with the redirect
CallbackDoneFor(k) ==
  \E a \in BagToSet(orgOps') :
    /\ a.op = "callback" /\ a.status = 302 /\ a.org = Str(k)
    /\ CopiesIn(a, orgOps') > CopiesIn(a, orgOps)

\* the step answers a request with 400
Answers400 ==
  \E a \in BagToSet(orgOps') :
    a.status = 400 /\ CopiesIn(a, orgOps') > CopiesIn(a, orgOps)

\* the step answers an auth check of organisation k with what is stored for k
StatusAsStored ==
  \A a \in BagToSet(orgOps') :
    (a.op = "status" /\ a.status = 200 /\ CopiesIn(a, orgOps') > CopiesIn(a, orgOps)) =>
      a.isAuthorized = Truthy(orgTokens[a.org.v])

\* C39: in part_001 the token of an organisation changes only in the step
\* that completes a callback for that organisation; the tokens of all other
\* organisations, and hence their auth status, stay as they were.  A request
\* without an organisation name is answered 400 and changes no token.
C39_OrgTokensApart ==
  [][/\ \A k \in OrgKeys : orgTokens'[k] # orgTokens[k] => CallbackDoneFor(k)
     /\ Answers400 => orgTokens' = orgTokens
     /\ \A a \in BagToSet(orgOps') :
          (~Truthy(a.org) /\ a.st = "DONE") => a.status = 400
     /\ StatusAsStored]_vars

\* a callback for A succeeded, an auth check of B still answers false, and
\* a request without an organisation got 400
C39_Witness ==
  /\ orgTokens[<<"A">>] = Str(<<"t1">>)
  /\ orgTokens[<<"B">>] = Undef
  /\ \E a \in OrgOps : a.op = "callback" /\ a.org = Str(<<"A">>) /\ a.status = 302
  /\ \E a \in OrgOps : a.op = "status" /\ a.org = Str(<<"B">>) /\ a.status = 200
                       /\ ~a.isAuthorized
  /\ \E a \in OrgOps : a.org = Undef /\ a.status = 400

====
